---- MODULE Spec2Model ----
(***************************************************************************)
(* A state-machine model of the prosody-editing evaluation pipeline:       *)
(*   promovits/evaluate/core.py   speaker(), default_metrics()             *)
(*   promonet/synthesize/core.py  from_files_to_files()                    *)
(*   promonet/interpolate/core.py grid_sample(), pitch()                   *)
(*                                                                         *)
(* Units.  Ratios are in permille (0.717 is 717).  Pitch is in milli-Hz,   *)
(* so that ratio * pitch is an exact integer.  Grid values are in          *)
(* milli-frames (GRID_ONE is one frame).  The result of a linear           *)
(* interpolation is kept as an exact fraction [n, d]; d = 0 is the         *)
(* floating point nan/inf that a division by zero yields.                  *)
(***************************************************************************)
EXTENDS Integers, Sequences, FiniteSets, TLC

(* ------------------------------ bounds -------------------------------- *)

\* number of stems in the test partition of the adaptation speaker
NumStems == 2
\* number of frames of every cached feature
NumFrames == 2
\* how many files of one run may raise inside the metrics try-block
MaxMetricErrors == 1
\* longest sequence and longest grid handed to grid_sample
MaxLen == 3
MaxGrid == 3

\* number of calls of generate() in one process
MaxCalls == 3

\* datasets evaluated by one call of datasets(), adaptation partitions of
\* a dataset, and calls of datasets() over one evaluation directory
NumDatasets == 2
NumSpeakers == 2
MaxRuns == 2

(* ------------------------- program constants -------------------------- *)

\* RATIOS = [.5, .717, 1.414, 2.], in permille
RATIOS == <<500, 717, 1414, 2000>>

\* promovits.FMIN and promovits.FMAX in milli-Hz (50 Hz and 550 Hz)
FMIN == 50000
FMAX == 550000

\* promovits.HOPSIZE, samples per frame
HOPSIZE == 256

\* promonet.SAMPLE_RATE
SAMPLE_RATE == 22050

\* one frame, the unit of grid values
GRID_ONE == 1000

(* ------------------------------ helpers ------------------------------- *)

Range(s) == {s[i] : i \in DOMAIN s}

RECURSIVE Sum(_, _)
\* the sum of f[x] over the x of S
Sum(f, S) ==
    IF S = {} THEN 0
    ELSE LET x == CHOOSE y \in S : TRUE
         IN f[x] + Sum(f, S \ {x})

Min(a, b) == IF a < b THEN a ELSE b
Max(a, b) == IF a > b THEN a ELSE b

\* sorted(...) of a set of integers
RECURSIVE Sorted(_)
Sorted(S) ==
    IF S = {} THEN <<>>
    ELSE LET m == CHOOSE x \in S : \A y \in S : x <= y
         IN <<m>> \o Sorted(S \ {m})

\* int(ratio * 100), the number formatted into a key as {:03d}
Percent(ratio) == ratio \div 10

\* f'{kind}-{int(ratio * 100):03d}'
Key(kind, ratio) == <<kind, Percent(ratio)>>

\* the two keys of the files dict that carry no ratio; the 100 is the ratio
\* of the unmodified recording
KeyOriginal == <<"original", 100>>
KeyReconstructed == <<"reconstructed", 100>>

\* the modification part '<modification>-<ratio>' of a file name
OriginalMod == <<"original", 100>>

\* sorted(promovits.load.partition(dataset)[test_partition])
test_stems == Sorted(1..NumStems)

Features == {"loudness", "periodicity", "phonemes", "pitch", "text", "voicing"}

\* an audio file: directory / <stem>-<modification>-<ratio>.wav
AudioFile(dir, stem, mod) == [dir |-> dir, stem |-> stem, mod |-> mod]

\* objective_directory / file.parent.name / file.stem : the directory of
\* the audio file plays no part in the prefix
Prefix(file) == <<file.stem, file.mod>>

(* ------------------------------- state -------------------------------- *)

VARIABLES
    pc,                 \* position of speaker()
    raised,             \* the exception that left speaker(), "" when none
    cache,              \* CACHE_DIR / dataset: stem -> feature -> content
    wavs,               \* audio files of the two subjective directories
    original_objective, \* artifacts of original_objective_directory
    objective,          \* copied artifacts of objective_directory
    fileKeys,           \* keys of the dict `files`, in insertion order
    files,              \* the dict `files`: key -> list of audio files
    stage,              \* which generation loop of speaker() is running
    ri,                 \* index in RATIOS of the running loop
    items,              \* from_files_to_files: the zipped iterator
    bi,                 \* from_files_to_files: index of the next item
    synthOrder,         \* keys handed to the synthesizer so far
    ki,                 \* index of the running `for key, value in files.items()`
    alignment_json,     \* prefixes of objective_directory with an alignment
    extracted,          \* prefix -> audio file its prosody was extracted from
    absentAfterPrimary, \* running batch: prefixes MFA wrote no alignment for
    p2fa_args,          \* running batch: the list p2fa_args
    p2fa_invoked,       \* running batch: argument lists P2FA was called with
    fallbackOK,         \* running batch: prefixes P2FA wrote an alignment for
    converted,          \* running batch: prefixes whose indices were saved
    ci,                 \* running batch: index of the next file to convert
    alignOrder,         \* keys whose prosody extraction has begun, in order
    metrics,            \* per-dataset accumulators: condition -> updates
    speaker_metrics,    \* per-speaker accumulators: condition -> updates
    file_metrics,       \* per-file accumulator: updates
    results,            \* results['objective']['raw']: key -> entries
    fi,                 \* index of the next file of the metrics loop
    metricOrder,        \* keys whose metrics loop has begun, in order
    errors,             \* exceptions caught by the metrics loop so far
    results_json,       \* results.json of the speaker, <<>> until written
    gs_sequence,        \* grid_sample: the argument `sequence`
    gs_grid,            \* grid_sample: the argument `grid`
    gs_method,          \* grid_sample: the argument `method`
    gs_state,           \* grid_sample: "call", "returned" or "ValueError"
    gs_result,          \* grid_sample: the returned sequence
    gen_model,          \* generate.model: the checkpoint file it was loaded from
    gen_checkpoint,     \* generate.checkpoint
    gen_device,         \* generate.device
    gen_args,           \* (checkpoint, device) of every call of generate()
    gen_loaded,         \* for every call, whether it loaded the checkpoint
    ds_pc,              \* position of datasets()
    ds_partitions,      \* dataset -> number of adaptation partitions
    di,                 \* index of the running `for dataset in datasets`
    pi,                 \* index of the running loop over the partitions
    disk,               \* results.json files: <<dataset, index>> -> content
    timer,              \* promovits.TIMER: key -> accumulated time
    evaluated,          \* speakers evaluated by the running call of datasets()
    elapsed,            \* time spent in speaker() for the running dataset
    runs,               \* calls of datasets() so far
    ds_metrics,         \* datasets(): the dict `metrics` of the running dataset
    pp_op,              \* preprocess: the function called, "" before the call
    pp_pc,              \* preprocess: "call", "returned" or "raised"
    pp_features,        \* preprocess: the argument `features`
    pp_rate,            \* preprocess: the argument `sample_rate`
    pp_transcript,      \* preprocess: the transcript inferred from the audio
    pp_file,            \* preprocess: the argument `file`
    pp_prefix,          \* preprocess: the argument `output_prefix`
    pp_result,          \* preprocess: the tuple from_audio returned
    pp_written,         \* preprocess: the files from_file_to_file has written
    wr_writer,          \* writer.writer: the id of the cached SummaryWriter
    wr_directory,       \* writer.directory
    wr_created,         \* log directories of the SummaryWriters created
    wr_calls            \* calls of writer(): argument and outcome

alignVars == <<alignment_json, extracted, absentAfterPrimary, p2fa_args,
               p2fa_invoked, fallbackOK, converted, ci, alignOrder>>

metricVars == <<metrics, speaker_metrics, file_metrics, results, fi,
                metricOrder, errors, results_json>>

interpVars == <<gs_sequence, gs_grid, gs_method, gs_state, gs_result>>

runVars == <<pc, raised, cache, wavs, original_objective, objective, fileKeys,
             files, stage, ri, items, bi, synthOrder, ki, alignVars,
             metricVars>>

genVars == <<gen_model, gen_checkpoint, gen_device, gen_args, gen_loaded>>

dsVars == <<ds_pc, ds_partitions, di, pi, disk, timer, evaluated, elapsed,
            runs, ds_metrics>>

ppVars == <<pp_op, pp_pc, pp_features, pp_rate, pp_transcript, pp_file,
            pp_prefix, pp_result, pp_written>>

wrVars == <<wr_writer, wr_directory, wr_created, wr_calls>>

\* the state that speaker(), grid_sample(), generate(), datasets(), the
\* preprocessing and writer() leave alone
outsideSpeaker == <<interpVars, genVars, dsVars, ppVars, wrVars>>
outsideInterp == <<runVars, genVars, dsVars, ppVars, wrVars>>
outsideGenerate == <<runVars, interpVars, dsVars, ppVars, wrVars>>
outsideDatasets == <<runVars, interpVars, genVars, ppVars, wrVars>>
outsidePreprocess == <<runVars, interpVars, genVars, dsVars, wrVars>>
outsideWriter == <<runVars, interpVars, genVars, dsVars, ppVars>>

vars == <<runVars, interpVars, genVars, dsVars, ppVars, wrVars>>

(* ----------------------- condition derivation ------------------------- *)

\* files[key] = value on a dict: a new key goes last, an old key stays
DictKeys(keys, key) == IF key \in Range(keys) THEN keys ELSE Append(keys, key)

\* pitch[pitch > FMIN] = FMIN would be the bug of clipping the wrong side
ClipLowWrongSide(p) == [i \in DOMAIN p |-> IF p[i] > FMIN THEN FMIN ELSE p[i]]

\* pitch[pitch < promovits.FMIN] = promovits.FMIN
ClipLow(p) == [i \in DOMAIN p |-> IF p[i] < FMIN THEN FMIN ELSE p[i]]

\* pitch[pitch > promovits.FMAX] = promovits.FMAX
ClipHigh(p) == [i \in DOMAIN p |-> IF p[i] > FMAX THEN FMAX ELSE p[i]]

\* pitch = ratio * torch.load(original_pitch_file), then the two clips
ShiftPitch(ratio, p) ==
    ClipHigh(ClipLow([i \in DOMAIN p |-> (ratio * p[i]) \div 1000]))

\* the matching artifacts of the first stem only
OriginalFilesOfFirstStem(feature) ==
    {a \in DOMAIN original_objective :
        a[1] = test_stems[1] /\ a[2] = OriginalMod /\ a[3] = feature}

\* the artifacts of original_objective_directory whose name matches
\* '*-original-100-<feature>.*'
OriginalFiles(feature) ==
    {a \in DOMAIN original_objective : a[2] = OriginalMod /\ a[3] = feature}

\* copying the pitch file itself, the name left as it was, would be the bug
\* of a missing .replace('pitch', feature)
CopyPitchFile(stem, feature) ==
    original_objective[<<stem, OriginalMod, "pitch">>]

\* shutil.copyfile(input_file, output_file) of an unchanged feature: the
\* input is the original-100 file of the same stem and feature
CopyFeature(stem, feature) ==
    original_objective[<<stem, OriginalMod, feature>>]

(* --------------------------- grid sampling ---------------------------- *)

\* torch.searchsorted(xp, x, right=True) with xp = torch.arange(n): the
\* number of entries of xp that are <= x
SearchSortedRight(n, x) == Cardinality({j \in 0..(n - 1) : j * GRID_ONE <= x})

\* torch.clip(v, lo, hi) = min(max(v, lo), hi); when lo > hi every element
\* becomes hi
Clip(v, lo, hi) == Min(Max(v, lo), hi)

\* a negative index of a tensor counts from the end
Wrap(j, n) == IF j < 0 THEN j + n ELSE j

\* i = torch.clip(torch.searchsorted(xp, x, right=True), 1, len(xp) - 1)
\* without clipping to len(xp) - 1 the last frame would index past the end
BracketUnclipped(n, x) == Max(SearchSortedRight(n, x), 1)

Bracket(n, x) == Clip(SearchSortedRight(n, x), 1, n - 1)

\* the two frames around x and their weights:
\* (xp[i] - x), (x - xp[i - 1]) and the divisor (xp[i] - xp[i - 1])
Weights(n, x) ==
    LET i == Bracket(n, x)
        hi == Wrap(i, n)
        lo == Wrap(i - 1, n)
    IN [lo |-> lo + 1, hi |-> hi + 1,
        wlo |-> hi * GRID_ONE - x,
        whi |-> x - lo * GRID_ONE,
        d |-> hi * GRID_ONE - lo * GRID_ONE]

\* torch.round: half-way cases go to the even integer
Round(x) ==
    LET q == x \div GRID_ONE
        r == x % GRID_ONE
    IN IF 2 * r < GRID_ONE THEN q
       ELSE IF 2 * r > GRID_ONE THEN q + 1
       ELSE IF q % 2 = 0 THEN q ELSE q + 1

\* returning the sequence itself, one value per original frame, would be
\* the bug of not sampling along the grid
grid_sample_unsampled(sequence, grid, method) == sequence

\* grid_sample(sequence, grid, method): 'linear' yields exact fractions,
\* 'nearest' yields entries of the sequence, 'slerp' is delegated to
\* ppgs.edit.grid.sample and is not computed here
grid_sample(sequence, grid, method) ==
    LET n == Len(sequence)
    IN CASE method = "linear" ->
              [k \in DOMAIN grid |->
                  LET w == Weights(n, grid[k])
                  IN [n |-> sequence[w.lo] * w.wlo + sequence[w.hi] * w.whi,
                      d |-> w.d]]
         [] method = "nearest" ->
              [k \in DOMAIN grid |-> sequence[Round(grid[k]) + 1]]

\* pitch(sequence, grid) = 2 ** grid_sample(torch.log2(sequence), grid):
\* the entry 2 ** ((wlo * log2(lo) + whi * log2(hi)) / d) is kept as the
\* two pitch values with their weights
pitch(sequence, grid) ==
    [k \in DOMAIN grid |->
        LET w == Weights(Len(sequence), grid[k])
        IN [lo |-> sequence[w.lo], hi |-> sequence[w.hi],
            wlo |-> w.wlo, whi |-> w.whi, d |-> w.d]]

\* torch.log2 of a pitch value that is a power of two
RECURSIVE Log2(_)
Log2(v) == IF v <= 1 THEN 0 ELSE 1 + Log2(v \div 2)

\* log2 of an entry of pitch(): the exponent of 2 ** (...), as a fraction
PitchLog2(r) ==
    [n |-> r.wlo * Log2(r.lo) + r.whi * Log2(r.hi), d |-> r.d]

\* promovits.interpolate.grid.from_alignments(alignment,
\* pyfoal.interpolate.voiced(alignment, ratio)): one fractional source
\* frame index per target frame, here for an utterance voiced throughout
from_alignments(n, ratio) ==
    [k \in 1..(((n - 1) * GRID_ONE) \div ratio + 1) |-> (k - 1) * ratio]

\* 10 * ratio, the logarithm left out, would make every offset positive
TenTimesRatio(ratio) == 10 * ratio

\* torch.log2 in fixed point: a value x / 10000 is halved or doubled into
\* [1, 2), which gives the integer part of the logarithm ...
RECURSIVE Exponent(_)
Exponent(x) ==
    IF x >= 20000 THEN 1 + Exponent(x \div 2)
    ELSE IF x < 10000 THEN Exponent(2 * x) - 1
    ELSE 0

RECURSIVE Mantissa(_)
Mantissa(x) ==
    IF x >= 20000 THEN Mantissa(x \div 2)
    ELSE IF x < 10000 THEN Mantissa(2 * x)
    ELSE x

\* ... and squared ten times, which gives ten binary digits of its
\* fraction, in 1/1024
RECURSIVE Fraction(_, _)
Fraction(x, bit) ==
    IF bit = 0 THEN 0
    ELSE LET y == (x * x) \div 10000
         IN IF y >= 20000 THEN bit + Fraction(y \div 2, bit \div 2)
            ELSE Fraction(y, bit \div 2)

\* 10 * torch.log2(torch.tensor(ratio)) in milli-dB, exact at the powers of
\* two and within 0.02 dB elsewhere
TenLog2(ratio) ==
    10 * (1000 * Exponent(10 * ratio)
          + (1000 * Fraction(Mantissa(10 * ratio), 512)) \div 1024)

(* ------------------------- speaker(): set-up -------------------------- *)

\* for stem in test_stems: copy the audio file and the prosody and text
\* files of the cache into the 'original' directories
CopyOriginals ==
    /\ pc = "copy"
    /\ wavs' =
          [f \in {AudioFile("original_subjective", s, OriginalMod) :
                      s \in Range(test_stems)} |->
              [audio |-> AudioFile("cache", f.stem, <<"", 100>>),
               target |-> <<>>]] @@ wavs
    /\ original_objective' =
          [a \in {<<s, OriginalMod, ft>> :
                      s \in Range(test_stems), ft \in DOMAIN cache[1]} |->
              cache[a[1]][a[3]]] @@ original_objective
    /\ pc' = "reconstruct"
    /\ UNCHANGED <<raised, cache, objective, fileKeys, files, stage, ri,
                   items, bi, synthOrder,
                   ki, alignVars, metricVars,
                   outsideSpeaker>>

\* sorted(...) of audio files of one directory and one modification
SortedFiles(S) ==
    LET st == Sorted({f.stem : f \in S})
    IN [i \in DOMAIN st |-> CHOOSE f \in S : f.stem = st[i]]

\* zip(audio_files, output_files, target_files) stops at the shortest list
Zip(a, b, t) ==
    [i \in 1..Min(Len(a), Min(Len(b), Len(t))) |->
        [source |-> a[i], output |-> b[i], target |-> t[i]]]

\* files = {'original': ...}; files['reconstructed'] = ...; and the call of
\* from_files_to_files(files['original'], files['reconstructed'], ...)
GenerateReconstructions ==
    /\ pc = "reconstruct"
    /\ LET orig == SortedFiles({f \in DOMAIN wavs :
                       f.dir = "original_subjective" /\ f.mod = OriginalMod})
           recon == SortedFiles({AudioFile("subjective", s, OriginalMod) :
                       s \in Range(test_stems)})
       IN /\ fileKeys' = <<KeyOriginal, KeyReconstructed>>
          /\ files' = (KeyOriginal :> orig) @@ (KeyReconstructed :> recon)
          /\ items' = Zip(orig, recon, [i \in DOMAIN recon |-> <<>>])
    /\ bi' = 1
    /\ stage' = "reconstructed"
    /\ synthOrder' = Append(synthOrder, KeyReconstructed)
    /\ pc' = "synthesize"
    /\ UNCHANGED <<raised, cache, wavs, original_objective, objective, ri,
                   ki, alignVars, metricVars,
                   outsideSpeaker>>

(* --------------- synthesize.from_files_to_files() -------------------- *)

\* one iteration of `for item in iterator: from_file_to_file(*item, ...)`
\* that returns: the generated audio is saved to the output file
FromFileToFile ==
    /\ pc = "synthesize"
    /\ bi <= Len(items)
    /\ wavs' = (items[bi].output :>
                   [audio |-> items[bi].source, target |-> items[bi].target])
               @@ wavs
    /\ bi' = bi + 1
    /\ UNCHANGED <<pc, raised, cache, original_objective, objective,
                   fileKeys, files, stage, ri, items, synthOrder,
                   ki, alignVars, metricVars,
                   outsideSpeaker>>

\* one iteration whose from_file_to_file raises: nothing catches it, neither
\* in from_files_to_files nor in speaker()
FromFileToFileRaises ==
    /\ pc = "synthesize"
    /\ bi <= Len(items)
    /\ pc' = "aborted"
    /\ raised' = "synthesis"
    /\ UNCHANGED <<cache, wavs, original_objective, objective, fileKeys,
                   files, stage, ri, items, bi, synthOrder,
                   ki, alignVars, metricVars,
                   outsideSpeaker>>

\* where speaker() goes on when a generation call returns
AfterGenerate ==
    CASE stage = "reconstructed" -> [pc |-> "copy_unchanged", ri |-> ri]
      [] stage = "shifted" ->
            IF ri < Len(RATIOS) THEN [pc |-> "shifted", ri |-> ri + 1]
            ELSE [pc |-> "stretched", ri |-> 1]
      [] stage = "stretched" ->
            IF ri < Len(RATIOS) THEN [pc |-> "stretched", ri |-> ri + 1]
            ELSE [pc |-> "scaled", ri |-> 1]
      [] stage = "scaled" ->
            IF ri < Len(RATIOS) THEN [pc |-> "scaled", ri |-> ri + 1]
            ELSE [pc |-> "extract", ri |-> ri]

\* the iterator is exhausted: from_files_to_files returns to speaker()
FromFilesToFilesReturns ==
    /\ pc = "synthesize"
    /\ bi > Len(items)
    /\ pc' = AfterGenerate.pc
    /\ ri' = AfterGenerate.ri
    /\ UNCHANGED <<raised, cache, wavs, original_objective, objective,
                   fileKeys, files, stage, items, bi, synthOrder,
                   ki, alignVars, metricVars,
                   outsideSpeaker>>

(* --------------------- speaker(): the conditions ---------------------- *)

\* copy the unchanged prosody features of every reconstructed file from
\* original_objective_directory to objective_directory
CopyUnchanged ==
    /\ pc = "copy_unchanged"
    /\ objective' =
          [a \in {<<f.stem, f.mod, ft>> :
                      f \in Range(files[KeyReconstructed]), ft \in Features} |->
              original_objective[a]] @@ objective
    /\ pc' = "shifted"
    /\ ri' = 1
    /\ UNCHANGED <<raised, cache, wavs, original_objective, fileKeys, files,
                   stage, items, bi, synthOrder,
                   ki, alignVars, metricVars,
                   outsideSpeaker>>

\* the output files and the target files of one edited condition, and the
\* call of from_files_to_files on them
Generate(key, feature) ==
    LET out == [i \in DOMAIN files[KeyReconstructed] |->
                   AudioFile("subjective", files[KeyReconstructed][i].stem, key)]
        tgt == [i \in DOMAIN files[KeyReconstructed] |->
                   <<files[KeyReconstructed][i].stem, key, feature>>]
    IN /\ fileKeys' = DictKeys(fileKeys, key)
       /\ files' = (key :> out) @@ files
       /\ items' = Zip(files[KeyOriginal], out, tgt)
       /\ bi' = 1
       /\ synthOrder' = Append(synthOrder, key)
       /\ pc' = "synthesize"

\* constant-ratio pitch-shifting, one ratio: shift and clip the pitch of
\* every original pitch file, copy the other features, then generate
ShiftDerive ==
    /\ pc = "shifted"
    /\ LET ratio == RATIOS[ri]
           key == Key("shifted", ratio)
           stems == {a[1] : a \in OriginalFiles("pitch")}
       IN /\ original_objective' =
                [a \in {<<s, key, "pitch">> : s \in stems} |->
                    ShiftPitch(ratio, original_objective[<<a[1], OriginalMod, "pitch">>])]
                @@ [a \in {<<s, key, ft>> : s \in stems,
                               ft \in Features \ {"pitch"}} |->
                    CopyFeature(a[1], a[3])]
                @@ original_objective
          /\ Generate(key, "pitch")
    /\ stage' = "shifted"
    /\ UNCHANGED <<raised, cache, wavs, objective, ri,
                   ki, alignVars, metricVars,
                   outsideSpeaker>>

\* constant-ratio time-stretching, one ratio: a grid per original alignment,
\* every feature resampled along it, the text copied, then generate
StretchDerive ==
    /\ pc = "stretched"
    /\ LET ratio == RATIOS[ri]
           key == Key("stretched", ratio)
           stems == {a[1] : a \in OriginalFiles("alignment")}
           orig(s, ft) == original_objective[<<s, OriginalMod, ft>>]
           grid(s) == from_alignments(Len(orig(s, "pitch")), ratio)
       IN /\ original_objective' =
                [a \in {<<s, key, "grid">> : s \in stems} |-> grid(a[1])]
                @@ [a \in {<<s, key, ft>> : s \in stems,
                               ft \in {"loudness", "periodicity"}} |->
                    grid_sample(orig(a[1], a[3]), grid(a[1]), "linear")]
                @@ [a \in {<<s, key, ft>> : s \in stems,
                               ft \in {"phonemes", "voicing"}} |->
                    grid_sample(orig(a[1], a[3]), grid(a[1]), "nearest")]
                @@ [a \in {<<s, key, "pitch">> : s \in stems} |->
                    pitch(orig(a[1], "pitch"), grid(a[1]))]
                @@ [a \in {<<s, key, "text">> : s \in stems} |->
                    orig(a[1], "text")]
                @@ original_objective
          /\ Generate(key, "grid")
    /\ stage' = "stretched"
    /\ UNCHANGED <<raised, cache, wavs, objective, ri,
                   ki, alignVars, metricVars,
                   outsideSpeaker>>

\* constant-ratio loudness-scaling, one ratio: add 10 * log2(ratio) to the
\* loudness of every original loudness file, copy the other features, then
\* generate
ScaleDerive ==
    /\ pc = "scaled"
    /\ LET ratio == RATIOS[ri]
           key == Key("scaled", ratio)
           stems == {a[1] : a \in OriginalFiles("loudness")}
           orig(s, ft) == original_objective[<<s, OriginalMod, ft>>]
       IN /\ original_objective' =
                [a \in {<<s, key, "loudness">> : s \in stems} |->
                    [i \in DOMAIN orig(a[1], "loudness") |->
                        TenLog2(ratio) + orig(a[1], "loudness")[i]]]
                @@ [a \in {<<s, key, ft>> : s \in stems,
                               ft \in Features \ {"loudness"}} |->
                    CopyFeature(a[1], a[3])]
                @@ original_objective
          /\ Generate(key, "loudness")
    /\ stage' = "scaled"
    /\ UNCHANGED <<raised, cache, wavs, objective, ri,
                   ki, alignVars, metricVars,
                   outsideSpeaker>>

(* ------------------ speaker(): alignment recovery --------------------- *)

\* sorted(files.items()) would visit the keys in alphabetical order
FilesItemsSorted ==
    LET all == <<KeyOriginal, KeyReconstructed>>
               \o [i \in DOMAIN RATIOS |-> Key("scaled", RATIOS[i])]
               \o [i \in DOMAIN RATIOS |-> Key("shifted", RATIOS[i])]
               \o [i \in DOMAIN RATIOS |-> Key("stretched", RATIOS[i])]
    IN SelectSeq(all, LAMBDA k : k \in Range(fileKeys))

\* for key, value in files.items(): a dict is visited in insertion order
FilesItems == fileKeys

\* output_prefixes of the batch of one key
OutputPrefixes(key) == [i \in DOMAIN files[key] |-> Prefix(files[key][i])]

\* the loop that makes sure alignments don't already exist left out
UnlinkNothing(present, prefixes) == present

\* file.unlink(missing_ok=True) for the alignment of every prefix
Unlink(present, prefixes) == present \ prefixes

\* the objective evaluation begun after the first batch
SkipBatches == [pc |-> "objective", ki |-> 1]

\* where the loop over files.items() goes after the batch of FilesItems[ki]
NextBatch ==
    IF ki < Len(FilesItems) THEN [pc |-> "extract", ki |-> ki + 1]
    ELSE [pc |-> "objective", ki |-> 1]

\* delete old alignments, then pysodic.from_files_to_files on the batch: the
\* primary aligner writes an alignment for the files it succeeds on and
\* nothing for the others
ExtractProsody ==
    /\ pc = "extract"
    /\ LET key == FilesItems[ki]
           prefixes == Range(OutputPrefixes(key))
       IN /\ \E ok \in SUBSET prefixes :
                /\ alignment_json' = Unlink(alignment_json, prefixes) \cup ok
                /\ absentAfterPrimary' = prefixes \ ok
          /\ extracted' =
                [p \in prefixes |->
                    CHOOSE f \in Range(files[key]) : Prefix(f) = p]
                @@ extracted
          /\ alignOrder' = Append(alignOrder, key)
    /\ p2fa_args' = <<>>
    /\ p2fa_invoked' = <<>>
    /\ fallbackOK' = {}
    /\ converted' = {}
    /\ ci' = 1
    /\ pc' = "collect"
    /\ UNCHANGED <<raised, cache, wavs, original_objective, objective,
                   fileKeys, files, stage, ri, items, bi, synthOrder, ki,
                   metricVars,
                   outsideSpeaker>>

\* (text_file, audio_file, output_file) of every file of the batch
AlignmentArgs(key) ==
    [i \in DOMAIN files[key] |->
        [text |-> <<files[key][i].stem, files[key][i].mod, "text">>,
         audio |-> files[key][i],
         output |-> Prefix(files[key][i])]]

\* retrying every file of the batch, aligned or not
FailedAlignmentsAll(key) == AlignmentArgs(key)

\* if not output_file.exists(): p2fa_args.append(...)
FailedAlignments(key) ==
    SelectSeq(AlignmentArgs(key), LAMBDA a : a.output \notin alignment_json)

\* get any failed alignments to retry; `if p2fa_args:` skips the retry
CollectFailed ==
    /\ pc = "collect"
    /\ p2fa_args' = FailedAlignments(FilesItems[ki])
    /\ IF p2fa_args' = <<>>
       THEN pc' = NextBatch.pc /\ ki' = NextBatch.ki
       ELSE pc' = "p2fa" /\ ki' = ki
    /\ UNCHANGED <<raised, cache, wavs, original_objective, objective,
                   fileKeys, files, stage, ri, items, bi, synthOrder,
                   alignment_json, extracted, absentAfterPrimary,
                   p2fa_invoked, fallbackOK, converted, ci, alignOrder,
                   metricVars,
                   outsideSpeaker>>

\* pyfoal.from_files_to_files(*zip(*p2fa_args)) with the P2FA backend: the
\* fallback aligner writes an alignment for the files it succeeds on
RetryP2FA ==
    /\ pc = "p2fa"
    /\ \E ok \in SUBSET {p2fa_args[i].output : i \in DOMAIN p2fa_args} :
          /\ alignment_json' = alignment_json \cup ok
          /\ fallbackOK' = ok
    /\ p2fa_invoked' = Append(p2fa_invoked, p2fa_args)
    /\ ci' = 1
    /\ pc' = "convert"
    /\ UNCHANGED <<raised, cache, wavs, original_objective, objective,
                   fileKeys, files, stage, ri, items, bi, synthOrder, ki,
                   extracted, absentAfterPrimary, p2fa_args, converted,
                   alignOrder, metricVars,
                   outsideSpeaker>>

\* convert one retried alignment to phoneme indices and save them
ConvertAlignment ==
    /\ pc = "convert"
    /\ ci <= Len(p2fa_args)
    /\ p2fa_args[ci].output \in alignment_json
    /\ converted' = converted \cup {p2fa_args[ci].output}
    /\ ci' = ci + 1
    /\ UNCHANGED <<pc, raised, cache, wavs, original_objective, objective,
                   fileKeys, files, stage, ri, items, bi, synthOrder, ki,
                   alignment_json, extracted, absentAfterPrimary, p2fa_args,
                   p2fa_invoked, fallbackOK, alignOrder, metricVars,
                   outsideSpeaker>>

\* pypar.Alignment(file) of a file P2FA did not write raises; nothing in
\* speaker() catches it
ConvertAlignmentRaises ==
    /\ pc = "convert"
    /\ ci <= Len(p2fa_args)
    /\ p2fa_args[ci].output \notin alignment_json
    /\ pc' = "aborted"
    /\ raised' = "alignment"
    /\ UNCHANGED <<cache, wavs, original_objective, objective, fileKeys,
                   files, stage, ri, items, bi, synthOrder, ki, alignVars,
                   metricVars,
                   outsideSpeaker>>

\* every retried file is converted: on to the next key
ConvertDone ==
    /\ pc = "convert"
    /\ ci > Len(p2fa_args)
    /\ pc' = NextBatch.pc
    /\ ki' = NextBatch.ki
    /\ UNCHANGED <<raised, cache, wavs, original_objective, objective,
                   fileKeys, files, stage, ri, items, bi, synthOrder,
                   alignVars, metricVars,
                   outsideSpeaker>>

(* --------------------- speaker(): objective metrics ------------------- *)

MetricKeys ==
    {OriginalMod} \cup
    {Key(c, RATIOS[i]) : c \in {"scaled", "shifted", "stretched"},
                         i \in DOMAIN RATIOS}

\* default_metrics(gpus): a fresh accumulator for each condition
default_metrics == [c \in MetricKeys |-> <<>>]

\* speaker_metrics = default_metrics(gpus); results = {'objective': {'raw': {}}}
\* (the locals of the extraction loop are dead from here on)
BeginObjective ==
    /\ pc = "objective"
    /\ speaker_metrics' = default_metrics
    /\ results' = [k \in {} |-> <<>>]
    /\ absentAfterPrimary' = {}
    /\ p2fa_args' = <<>>
    /\ p2fa_invoked' = <<>>
    /\ fallbackOK' = {}
    /\ converted' = {}
    /\ ci' = 1
    /\ pc' = "key"
    /\ UNCHANGED <<raised, cache, wavs, original_objective, objective,
                   fileKeys, files, stage, ri, items, bi, synthOrder, ki,
                   alignment_json, extracted, alignOrder, metrics,
                   file_metrics, fi, metricOrder, errors, results_json,
                   outsideSpeaker>>

\* for key, value in files.items(): results['objective']['raw'][key] = []
BeginKey ==
    /\ pc = "key"
    /\ ki <= Len(FilesItems)
    /\ results' = (FilesItems[ki] :> <<>>) @@ results
    /\ metricOrder' = Append(metricOrder, FilesItems[ki])
    /\ fi' = 1
    /\ pc' = "file"
    /\ UNCHANGED <<raised, cache, wavs, original_objective, objective,
                   fileKeys, files, stage, ri, items, bi, synthOrder, ki,
                   alignVars, metrics, speaker_metrics, file_metrics, errors,
                   results_json,
                   outsideSpeaker>>

\* one update of an accumulator: the arguments are loaded from the target and
\* the predicted prefix of the file, which share stem and modification
Update(file, whole) == [args |-> Prefix(file), whole |-> whole]

\* the result of the file put in front of the list
PrependResult(fm) ==
    /\ results' = [results EXCEPT
                      ![FilesItems[ki]] =
                          <<<<Prefix(files[FilesItems[ki]][fi]), fm>>>> \o @]
    /\ file_metrics' = <<>>
    /\ IF fi < Len(files[FilesItems[ki]])
       THEN fi' = fi + 1 /\ ki' = ki /\ pc' = "file"
       ELSE fi' = 1 /\ ki' = ki + 1 /\ pc' = "key"

\* results['objective']['raw'][key].append((file.stem, file_metrics())),
\* file_metrics.reset(), and on to the next file or key
AppendResult(fm) ==
    /\ results' = [results EXCEPT
                      ![FilesItems[ki]] =
                          Append(@, <<Prefix(files[FilesItems[ki]][fi]), fm>>)]
    /\ file_metrics' = <<>>
    /\ IF fi < Len(files[FilesItems[ki]])
       THEN fi' = fi + 1 /\ ki' = ki /\ pc' = "file"
       ELSE fi' = 1 /\ ki' = ki + 1 /\ pc' = "key"

\* the try-block of one file runs to its end: the three accumulators are
\* updated with the same arguments, and the result of the file is appended
UpdateMetrics ==
    /\ pc = "file"
    /\ LET file == files[FilesItems[ki]][fi]
           condition == file.mod
       IN /\ metrics' = [metrics EXCEPT
                            ![condition] = Append(@, Update(file, TRUE))]
          /\ speaker_metrics' = [speaker_metrics EXCEPT
                            ![condition] = Append(@, Update(file, TRUE))]
          /\ AppendResult(<<Update(file, TRUE)>>)
    /\ UNCHANGED <<raised, cache, wavs, original_objective, objective,
                   fileKeys, files, stage, ri, items, bi, synthOrder,
                   alignVars, metricOrder, errors, results_json,
                   outsideSpeaker>>

\* the try-block of one file raises: in a torch.load, before any accumulator
\* is touched, or inside one of the three updates, which has then changed
\* its accumulator in part and leaves the later ones untouched;
\* `except Exception` prints the error and calls pdb.set_trace()
UpdateMetricsRaises ==
    /\ pc = "file"
    /\ errors < MaxMetricErrors
    /\ \E where \in {"load", "metrics", "speaker_metrics", "file_metrics"} :
          LET file == files[FilesItems[ki]][fi]
              condition == file.mod
              whole(acc) == [acc EXCEPT
                                ![condition] = Append(@, Update(file, TRUE))]
              partly(acc) == [acc EXCEPT
                                ![condition] = Append(@, Update(file, FALSE))]
          IN /\ metrics' =
                   CASE where = "load" -> metrics
                     [] where = "metrics" -> partly(metrics)
                     [] OTHER -> whole(metrics)
             /\ speaker_metrics' =
                   CASE where \in {"load", "metrics"} -> speaker_metrics
                     [] where = "speaker_metrics" -> partly(speaker_metrics)
                     [] OTHER -> whole(speaker_metrics)
             /\ file_metrics' =
                   IF where = "file_metrics"
                   THEN <<Update(file, FALSE)>> ELSE <<>>
    /\ errors' = errors + 1
    /\ pc' = "pdb"
    /\ UNCHANGED <<raised, cache, wavs, original_objective, objective,
                   fileKeys, files, stage, ri, items, bi, synthOrder, ki,
                   alignVars, results, fi, metricOrder, results_json,
                   outsideSpeaker>>

\* the debugger prompt is answered with `continue`: the loop goes on
PdbContinue ==
    /\ pc = "pdb"
    /\ AppendResult(file_metrics)
    /\ UNCHANGED <<raised, cache, wavs, original_objective, objective,
                   fileKeys, files, stage, ri, items, bi, synthOrder,
                   alignVars, metrics, speaker_metrics, metricOrder, errors,
                   results_json,
                   outsideSpeaker>>

\* the debugger prompt is answered with `quit`, or standard input is at its
\* end: bdb.BdbQuit leaves speaker()
PdbQuit ==
    /\ pc = "pdb"
    /\ pc' = "aborted"
    /\ raised' = "BdbQuit"
    /\ UNCHANGED <<cache, wavs, original_objective, objective, fileKeys,
                   files, stage, ri, items, bi, synthOrder, ki, alignVars,
                   metricVars,
                   outsideSpeaker>>

\* the frames of a generated audio file: those of the features it was
\* generated from, the length of the grid for a stretched file
GeneratedFrames(f) ==
    IF f.mod[1] = "stretched"
    THEN Len(original_objective[<<f.stem, f.mod, "grid">>])
    ELSE Len(cache[f.stem]["pitch"])

\* file.stat().st_size: four bytes for each sample (the few bytes of the
\* header are left out)
StSize(f) == 4 * HOPSIZE * GeneratedFrames(f)

\* subjective_directory.rglob('*.wav'): the generated audio files; the
\* originals are in a directory beside it
SubjectiveWavs(present) == {f \in DOMAIN present : f.dir = "subjective"}

\* results['num_samples']: the bytes of every generated audio file // 4
CountSamples(present) ==
    Sum([f \in SubjectiveWavs(present) |-> StSize(f)],
        SubjectiveWavs(present)) \div 4

\* the total number of samples, the averages of the speaker, and json.dump
\* to results.json
WriteResults ==
    /\ pc = "key"
    /\ ki > Len(FilesItems)
    /\ results_json' = [raw |-> results,
                        average |-> speaker_metrics,
                        num_samples |-> CountSamples(wavs),
                        num_frames |-> CountSamples(wavs) \div HOPSIZE]
    /\ pc' = "done"
    /\ UNCHANGED <<raised, cache, wavs, original_objective, objective,
                   fileKeys, files, stage, ri, items, bi, synthOrder, ki,
                   alignVars, metrics, speaker_metrics, file_metrics, results,
                   fi, metricOrder, errors,
                   outsideSpeaker>>

(* ------------------------ a call of grid_sample ----------------------- *)

\* the method is 'linear' or 'nearest': grid_sample returns the samples
GridSample ==
    /\ gs_state = "call"
    /\ gs_method \in {"linear", "nearest"}
    /\ gs_result' = grid_sample(gs_sequence, gs_grid, gs_method)
    /\ gs_state' = "returned"
    /\ UNCHANGED <<gs_sequence, gs_grid, gs_method, outsideInterp>>

\* any method other than 'linear', 'nearest' and 'slerp' raises ValueError
GridSampleUndefined ==
    /\ gs_state = "call"
    /\ gs_method \notin {"linear", "nearest", "slerp"}
    /\ gs_state' = "ValueError"
    /\ UNCHANGED <<gs_sequence, gs_grid, gs_method, gs_result, outsideInterp>>

\* a call of interpolate.pitch(sequence, grid)
InterpolatePitch ==
    /\ gs_state = "call"
    /\ gs_method = "pitch"
    /\ gs_result' = pitch(gs_sequence, gs_grid)
    /\ gs_state' = "returned"
    /\ UNCHANGED <<gs_sequence, gs_grid, gs_method, outsideInterp>>

(* ------------------------ synthesize.generate() ----------------------- *)

\* the value of an attribute of generate() that is not set
NoModel == [type |-> "", path |-> ""]

\* the directory of a training run and the checkpoints saved in it
CheckpointDir == "runs/generator"
CheckpointFiles == <<"runs/generator/generator-00100000.pt",
                     "runs/generator/generator-00200000.pt">>

\* the checkpoint arguments the interface accepts: a pathlib.Path or a str,
\* naming a checkpoint file or a directory of checkpoints
Checkpoints ==
    {[type |-> t, path |-> q] :
        t \in {"Path", "str"},
        q \in {CheckpointDir} \cup Range(CheckpointFiles)}

Devices == {"cpu", "cuda:0"}

\* Path(checkpoint)
AsPath(checkpoint) == [type |-> "Path", path |-> checkpoint.path]

\* checkpoint.is_dir()
is_dir(checkpoint) == checkpoint.path = CheckpointDir

\* torchutil.checkpoint.latest_path(checkpoint, 'generator-*.pt'): the file
\* of the highest step
latest_path(checkpoint) ==
    [type |-> "Path", path |-> CheckpointFiles[Len(CheckpointFiles)]]

\* the local `checkpoint` after lines 221-226
Resolve(checkpoint) ==
    LET c == IF checkpoint.type = "str" THEN AsPath(checkpoint)
             ELSE checkpoint
    IN IF is_dir(c) THEN latest_path(c) ELSE c

\* the test of the cache without its comparison of the devices
StaleCheckpoint(checkpoint, device) ==
    \/ gen_model = NoModel
    \/ gen_checkpoint # checkpoint

\* not hasattr(generate, 'model') or generate.checkpoint != checkpoint or
\* generate.device != device : a Path and a str are never equal
Stale(checkpoint, device) ==
    \/ gen_model = NoModel
    \/ gen_checkpoint # checkpoint
    \/ gen_device # device

\* a call of generate() that finds the cache stale and loads the checkpoint
GenerateLoads ==
    /\ Len(gen_args) < MaxCalls
    /\ \E checkpoint \in Checkpoints, device \in Devices :
          /\ Stale(checkpoint, device)
          /\ gen_model' = Resolve(checkpoint)
          /\ gen_checkpoint' = Resolve(checkpoint)
          /\ gen_device' = device
          /\ gen_args' = Append(gen_args, <<checkpoint, device>>)
          /\ gen_loaded' = Append(gen_loaded, TRUE)
    /\ UNCHANGED outsideGenerate

\* a call of generate() that reuses generate.model
GenerateReuses ==
    /\ Len(gen_args) < MaxCalls
    /\ \E checkpoint \in Checkpoints, device \in Devices :
          /\ ~Stale(checkpoint, device)
          /\ gen_args' = Append(gen_args, <<checkpoint, device>>)
          /\ gen_loaded' = Append(gen_loaded, FALSE)
    /\ UNCHANGED <<gen_model, gen_checkpoint, gen_device, outsideGenerate>>

(* --------------------------- datasets() ------------------------------- *)

\* results['num_samples'] of speaker(): the bytes of the wav files of the
\* subjective directory // 4; and num_samples // promovits.HOPSIZE
NumSamples(dataset, index) == HOPSIZE * (dataset + index) + index
FramesOf(n) == n \div HOPSIZE

\* the path of the dataset-level results.json: results_directory itself
DatasetResults(dataset) == <<dataset, 0>>

\* results_directory.rglob('results.json'): every results.json below the
\* directory of the dataset, the one in the directory itself included
Rglob(dataset) == {f \in DOMAIN disk : f[1] = dataset}

\* promovits.TIMER.reset(): the history is emptied
ResetTimer(t) == <<>>

\* one timed block adds its duration to the history of its key
Timed(t, key, duration) ==
    IF key \in DOMAIN t THEN [t EXCEPT ![key] = @ + duration]
    ELSE (key :> duration) @@ t

\* a call of datasets()
CallDatasets ==
    /\ ds_pc \in {"", "done", "aborted"}
    /\ runs < MaxRuns
    /\ runs' = runs + 1
    /\ di' = 1
    /\ pi' = 1
    /\ evaluated' = {}
    /\ elapsed' = [d \in 1..NumDatasets |-> <<>>]
    /\ ds_pc' = "dataset"
    /\ UNCHANGED <<ds_partitions, disk, timer, ds_metrics, outsideDatasets>>

\* default_metrics called once, before the loop over the datasets
SharedMetrics(old) == IF old = <<>> THEN default_metrics ELSE old

\* metrics = default_metrics(gpus): new accumulators for the dataset
NewMetrics(old) == default_metrics

\* the updates one call of speaker() makes to the accumulator of a
\* condition when no update raises: one for every file of every key of
\* `files` whose files are of the condition, in the order of the test
\* stems; the files of the keys 'original' and 'reconstructed' are both
\* named '<stem>-original-100'
SpeakerUpdates(dataset, index, condition) ==
    LET batch == [n \in DOMAIN test_stems |->
                     [dataset |-> dataset, index |-> index,
                      args |-> <<test_stems[n], condition>>,
                      whole |-> TRUE]]
    IN IF condition = OriginalMod THEN batch \o batch ELSE batch

\* the accumulators after a call of speaker() that returns
AfterSpeaker(accumulators, dataset, index) ==
    [c \in MetricKeys |->
        accumulators[c] \o SpeakerUpdates(dataset, index, c)]

\* for dataset in datasets: reset the timer, read the partitions, make the
\* accumulators of the dataset
BeginDataset ==
    /\ ds_pc = "dataset"
    /\ di <= NumDatasets
    /\ timer' = ResetTimer(timer)
    /\ ds_metrics' = NewMetrics(ds_metrics)
    /\ pi' = 1
    /\ ds_pc' = "partition"
    /\ UNCHANGED <<ds_partitions, di, disk, evaluated, elapsed, runs,
                   outsideDatasets>>

\* speaker(...) of one adaptation partition returns: it has timed the
\* generation and written the results.json of the speaker
EvaluateSpeaker ==
    /\ ds_pc = "partition"
    /\ pi <= ds_partitions[di]
    /\ LET n == NumSamples(di, pi)
           t == Timed(Timed(timer, "load", 1), "generate", n)
       IN /\ disk' = (<<di, pi>> :>
                         [num_samples |-> n, num_frames |-> FramesOf(n),
                          objective |->
                              AfterSpeaker(default_metrics, di, pi)])
                     @@ disk
          /\ timer' = t
          /\ elapsed' = [elapsed EXCEPT
                 ![di] = Timed(Timed(@, "load", 1), "generate", n)]
    /\ ds_metrics' = AfterSpeaker(ds_metrics, di, pi)
    /\ evaluated' = evaluated \cup {<<di, pi>>}
    /\ pi' = pi + 1
    /\ UNCHANGED <<ds_pc, ds_partitions, di, runs, outsideDatasets>>

\* speaker(...) raises, before or after its updates of the accumulators:
\* nothing in datasets() catches it
EvaluateSpeakerRaises ==
    /\ ds_pc = "partition"
    /\ pi <= ds_partitions[di]
    /\ ds_pc' = "aborted"
    /\ ds_metrics' \in {ds_metrics, AfterSpeaker(ds_metrics, di, pi)}
    /\ UNCHANGED <<ds_partitions, di, pi, disk, timer, evaluated, elapsed,
                   runs, outsideDatasets>>

\* aggregate results: sum the counts of every results.json found, add the
\* timer and its average over the samples, and write the results.json of
\* the dataset. The directory of the dataset is made by speaker() only:
\* when nothing was ever evaluated into it, open() raises
\* FileNotFoundError; a division by zero leaves datasets() as well
Aggregate ==
    /\ ds_pc = "partition"
    /\ pi > ds_partitions[di]
    /\ LET found == Rglob(di)
           num_samples == Sum([f \in found |-> disk[f].num_samples], found)
           num_frames == Sum([f \in found |-> disk[f].num_frames], found)
           raw == timer
       IN IF \/ num_samples = 0 /\ DOMAIN raw # {}
             \/ found = {}
          THEN /\ ds_pc' = "aborted"
               /\ UNCHANGED <<di, disk>>
          ELSE /\ disk' = (DatasetResults(di) :>
                              [num_samples |-> num_samples,
                               num_frames |-> num_frames,
                               prosody |-> ds_metrics,
                               raw |-> raw,
                               average |-> [k \in DOMAIN raw |->
                                   [n |-> raw[k], d |-> num_samples]]])
                          @@ disk
               /\ di' = di + 1
               /\ ds_pc' = "dataset"
    /\ UNCHANGED <<ds_partitions, pi, timer, evaluated, elapsed, runs,
                   ds_metrics, outsideDatasets>>

\* every dataset is evaluated: datasets() returns
DatasetsReturns ==
    /\ ds_pc = "dataset"
    /\ di > NumDatasets
    /\ ds_pc' = "done"
    /\ UNCHANGED <<ds_partitions, di, pi, disk, timer, evaluated, elapsed,
                   runs, ds_metrics, outsideDatasets>>

(* ---------------------------- preprocess ------------------------------ *)

\* a tensor holding a feature, and a str
Tensor(feature) == [type |-> "tensor", value |-> feature]
Str(value) == [type |-> "str", value |-> value]

\* the options of `features`
FeatureOptions == {"loudness", "periodicity", "pitch", "ppg", "text"}

\* torchaudio.functional.resample(audio.shape[-1], sample_rate,
\* promonet.SAMPLE_RATE): the first argument is an int, which resample
\* returns as it is when the two rates are equal and whose .device it reads
\* when they are not
ResampleRaises(sample_rate) == sample_rate # SAMPLE_RATE

\* from_audio: loudness; pitch and periodicity, both when either is asked
\* for; ppg; text
from_audio(features, sample_rate, transcript) ==
    [raised |-> IF "ppg" \in features /\ ResampleRaises(sample_rate)
                THEN "AttributeError" ELSE "",
     result |->
        (IF "loudness" \in features THEN <<Tensor("loudness")>> ELSE <<>>)
        \o (IF "pitch" \in features \/ "periodicity" \in features
            THEN <<Tensor("pitch"), Tensor("periodicity")>> ELSE <<>>)
        \o (IF "ppg" \in features THEN <<Tensor("ppg")>> ELSE <<>>)
        \o (IF "text" \in features THEN <<Str(transcript)>> ELSE <<>>)]

\* from_file: promonet.load.audio(file), and from_audio at the default
\* sample rate
from_file(features, transcript) ==
    from_audio(features, SAMPLE_RATE, transcript)

\* `name in features` on the tuple from_file returned: a str equals no
\* tensor, and equals the transcript when they are the same text
In(name, tuple) == \E i \in DOMAIN tuple : tuple[i] = Str(name)

\* the audio file to preprocess, as a str and as a pathlib.Path
AudioFiles ==
    {[type |-> t, path |-> "data/0001.wav"] : t \in {"Path", "str"}}

\* file.parent / file.stem
MinusExtension(file) == "data/0001"

\* the name of the artifact of a feature under a prefix
Artifact(prefix, feature) ==
    CASE feature = "ppg" -> <<prefix, "representation_file_extension">>
      [] feature = "text" -> <<prefix, ".txt">>
      [] OTHER -> <<prefix, "-" \o feature \o ".pt">>

\* lines 150-168 on the tuple `features`: the files written, and the
\* exception that ends them. `del features[0]` on a tuple is a TypeError, and
\* so is file.write of a tensor, which leaves the opened file empty
Save(file, output_prefix, features) ==
    LET prefix == IF output_prefix = "None" THEN MinusExtension(file)
                  ELSE output_prefix
        saved == {f \in {"loudness", "periodicity", "pitch", "ppg"} :
                     In(f, features)}
        first == CHOOSE f \in saved :
                     \A g \in saved :
                         \/ f = g
                         \/ f = "loudness"
                         \/ f = "periodicity" /\ g # "loudness"
                         \/ f = "pitch" /\ g = "ppg"
    IN IF output_prefix = "None" /\ file.type = "str"
       THEN [written |-> {}, raised |-> "AttributeError"]
       ELSE IF saved # {}
       THEN [written |-> {[name |-> Artifact(prefix, first),
                           content |-> features[1]]},
             raised |-> "TypeError"]
       ELSE IF In("text", features)
       THEN IF features[1].type = "str"
            THEN [written |-> {[name |-> Artifact(prefix, "text"),
                                content |-> features[1]]},
                  raised |-> ""]
            ELSE [written |-> {[name |-> Artifact(prefix, "text"),
                                content |-> Str("")]},
                  raised |-> "TypeError"]
       ELSE [written |-> {}, raised |-> ""]

\* a call of preprocess.from_audio
PreprocessFromAudio ==
    /\ pp_pc = "call"
    /\ pp_op' = "from_audio"
    /\ LET r == from_audio(pp_features, pp_rate, pp_transcript)
       IN IF r.raised = ""
          THEN pp_result' = r.result /\ pp_pc' = "returned"
          ELSE pp_result' = <<>> /\ pp_pc' = "raised"
    /\ UNCHANGED <<pp_features, pp_rate, pp_transcript, pp_file, pp_prefix,
                   pp_written, outsidePreprocess>>

\* a call of preprocess.from_file_to_file
PreprocessFromFileToFile ==
    /\ pp_pc = "call"
    /\ pp_op' = "from_file_to_file"
    /\ LET features == from_file(pp_features, pp_transcript).result
           r == Save(pp_file, pp_prefix, features)
       IN /\ pp_result' = features
          /\ pp_written' = r.written
          /\ pp_pc' = IF r.raised = "" THEN "returned" ELSE "raised"
    /\ UNCHANGED <<pp_features, pp_rate, pp_transcript, pp_file, pp_prefix,
                   outsidePreprocess>>

(* ------------------------------ writer() ------------------------------ *)

\* the log directories writer() is called with, as a pathlib.Path and as a
\* str
LogDirectories ==
    {[type |-> t, path |-> q] :
        t \in {"Path", "str"}, q \in {"logs/a", "logs/b", "logs/c"}}

\* the test of line 49 left out
NeverChanged(directory) == FALSE

\* directory != writer.directory
Changed(directory) == directory # wr_directory

\* the first call of writer(): a SummaryWriter is created and cached with
\* its directory, which the test of line 49 then finds unchanged
WriterCreates ==
    /\ wr_writer = 0
    /\ Len(wr_calls) < MaxCalls
    /\ \E directory \in LogDirectories :
          /\ wr_created' = Append(wr_created, directory)
          /\ wr_writer' = Len(wr_created) + 1
          /\ wr_directory' = directory
          /\ wr_calls' = Append(wr_calls,
                [directory |-> directory, outcome |-> "returned",
                 writer |-> Len(wr_created) + 1])
    /\ UNCHANGED outsideWriter

\* a later call that returns writer.writer
WriterReturns ==
    /\ wr_writer # 0
    /\ Len(wr_calls) < MaxCalls
    /\ \E directory \in LogDirectories :
          /\ ~Changed(directory)
          /\ wr_calls' = Append(wr_calls,
                [directory |-> directory, outcome |-> "returned",
                 writer |-> wr_writer])
    /\ UNCHANGED <<wr_writer, wr_directory, wr_created, outsideWriter>>

\* a later call that raises ValueError
WriterRaises ==
    /\ wr_writer # 0
    /\ Len(wr_calls) < MaxCalls
    /\ \E directory \in LogDirectories :
          /\ Changed(directory)
          /\ wr_calls' = Append(wr_calls,
                [directory |-> directory, outcome |-> "ValueError",
                 writer |-> 0])
    /\ UNCHANGED <<wr_writer, wr_directory, wr_created, outsideWriter>>

(* --------------------------- specification --------------------------- *)

\* the cached features of stem s: frame i of the pitch is taken in turn
\* from a contour that leaves the valid range on both sides
DefaultPitch == <<40000, 600000, 200000>>

CacheWith(pitches) ==
    [s \in 1..NumStems |->
        [ft \in Features \cup {"alignment"} |->
            IF ft = "pitch" THEN pitches[s]
            ELSE [i \in 1..NumFrames |-> i]]]

DefaultCache ==
    CacheWith([s \in 1..NumStems |->
                  [i \in 1..NumFrames |-> DefaultPitch[((s + i) % 3) + 1]]])

\* the state at the call of speaker() in a fresh evaluation directory, with
\* the per-dataset accumulators just made by datasets()
InitRun ==
    /\ pc = "copy"
    /\ raised = ""
    /\ wavs = [f \in {} |-> <<>>]
    /\ original_objective = [a \in {} |-> <<>>]
    /\ objective = [a \in {} |-> <<>>]
    /\ fileKeys = <<>>
    /\ files = [k \in {} |-> <<>>]
    /\ stage = ""
    /\ ri = 1
    /\ items = <<>>
    /\ bi = 1
    /\ synthOrder = <<>>
    /\ ki = 1
    /\ alignment_json = {}
    /\ extracted = [p \in {} |-> <<>>]
    /\ absentAfterPrimary = {}
    /\ p2fa_args = <<>>
    /\ p2fa_invoked = <<>>
    /\ fallbackOK = {}
    /\ converted = {}
    /\ ci = 1
    /\ alignOrder = <<>>
    /\ metrics = default_metrics
    /\ speaker_metrics = default_metrics
    /\ file_metrics = <<>>
    /\ results = [k \in {} |-> <<>>]
    /\ fi = 1
    /\ metricOrder = <<>>
    /\ errors = 0
    /\ results_json = <<>>

\* no call of grid_sample is under way
InitNoCall ==
    /\ gs_sequence = <<>>
    /\ gs_grid = <<>>
    /\ gs_method = ""
    /\ gs_state = ""
    /\ gs_result = <<>>

\* no function of preprocess is called
InitNoPreprocess ==
    /\ pp_op = ""
    /\ pp_pc = ""
    /\ pp_features = {}
    /\ pp_rate = 0
    /\ pp_transcript = ""
    /\ pp_file = NoModel
    /\ pp_prefix = ""
    /\ pp_result = <<>>
    /\ pp_written = {}

\* writer() has not been called in this process: the function has no
\* attribute `writer`
InitNoWriter ==
    /\ wr_writer = 0
    /\ wr_directory = NoModel
    /\ wr_created = <<>>
    /\ wr_calls = <<>>

\* generate() has not been called in this process: the function has no
\* attribute `model`
InitNoModel ==
    /\ gen_model = NoModel
    /\ gen_checkpoint = NoModel
    /\ gen_device = ""
    /\ gen_args = <<>>
    /\ gen_loaded = <<>>

\* datasets() is not running and the evaluation directory holds no results
InitNoDatasets ==
    /\ ds_pc = ""
    /\ ds_partitions = <<>>
    /\ di = 1
    /\ pi = 1
    /\ disk = <<>>
    /\ timer = <<>>
    /\ evaluated = {}
    /\ elapsed = <<>>
    /\ runs = 0
    /\ ds_metrics = <<>>

Init ==
    /\ cache = DefaultCache
    /\ InitRun
    /\ InitNoCall
    /\ InitNoModel
    /\ InitNoPreprocess
    /\ InitNoWriter
    /\ InitNoDatasets

\* the pitch values a cached contour is drawn from: one is below FMIN and
\* one above FMAX
PitchValues == {40000, 600000}

InitDerive ==
    /\ cache \in {CacheWith(p) :
                     p \in [1..NumStems -> [1..NumFrames -> PitchValues]]}
    /\ InitRun
    /\ InitNoCall
    /\ InitNoModel
    /\ InitNoPreprocess
    /\ InitNoWriter
    /\ InitNoDatasets

\* the values of a sampled sequence
SampleValues == {1, 3}

\* the grid values that lie in [0, n - 1], in steps of half a frame
GridPoints(n) == {h * (GRID_ONE \div 2) : h \in 0..(2 * (n - 1))}

\* a call grid_sample(sequence, grid, method) with a sequence of 1..MaxLen
\* frames and a grid of 1..MaxGrid values in [0, len(sequence) - 1]
InitInterp ==
    /\ cache = DefaultCache
    /\ InitRun
    /\ \E n \in 1..MaxLen, m \in 1..MaxGrid :
          /\ gs_sequence \in [1..n -> SampleValues]
          /\ gs_grid \in [1..m -> GridPoints(n)]
    /\ gs_method \in {"linear", "nearest", "cubic"}
    /\ gs_state = "call"
    /\ gs_result = <<>>
    /\ InitNoModel
    /\ InitNoPreprocess
    /\ InitNoWriter
    /\ InitNoDatasets

\* the pitch values of a sampled contour, powers of two so that log2 is
\* exact; a common factor (100 Hz) changes no interpolation weight
PitchSamples == {1, 2, 4}

\* a call pitch(sequence, grid) with a contour of 1..MaxLen frames and a
\* grid of 1..MaxGrid values in [0, len(sequence) - 1]
InitPitch ==
    /\ cache = DefaultCache
    /\ InitRun
    /\ \E n \in 1..MaxLen, m \in 1..MaxGrid :
          /\ gs_sequence \in [1..n -> PitchSamples]
          /\ gs_grid \in [1..m -> GridPoints(n)]
    /\ gs_method = "pitch"
    /\ gs_state = "call"
    /\ gs_result = <<>>
    /\ InitNoModel
    /\ InitNoPreprocess
    /\ InitNoWriter
    /\ InitNoDatasets

NextPitch ==
    \/ InterpolatePitch

NextInterp ==
    \/ GridSample
    \/ GridSampleUndefined

NextDerive ==
    \/ CopyOriginals
    \/ GenerateReconstructions
    \/ FromFileToFile
    \/ FromFileToFileRaises
    \/ FromFilesToFilesReturns
    \/ CopyUnchanged
    \/ ShiftDerive
    \/ StretchDerive
    \/ ScaleDerive

Next ==
    \/ NextDerive
    \/ ExtractProsody
    \/ CollectFailed
    \/ RetryP2FA
    \/ ConvertAlignment
    \/ ConvertAlignmentRaises
    \/ ConvertDone
    \/ BeginObjective
    \/ BeginKey
    \/ UpdateMetrics
    \/ UpdateMetricsRaises
    \/ PdbContinue
    \/ PdbQuit
    \/ WriteResults

\* speaker() on one adaptation speaker
Spec == Init /\ [][Next]_vars

\* the derivation and generation of the conditions, for any cached pitch
SpecDerive == InitDerive /\ [][NextDerive]_vars

\* calls of grid_sample on bounded sequences and grids
SpecInterp == InitInterp /\ [][NextInterp]_vars

\* calls of interpolate.pitch
SpecPitch == InitPitch /\ [][NextPitch]_vars

NextGenerate ==
    \/ GenerateLoads
    \/ GenerateReuses

\* generate() has not been called in this process
InitGenerate ==
    /\ cache = DefaultCache
    /\ InitRun
    /\ InitNoCall
    /\ InitNoModel
    /\ InitNoPreprocess
    /\ InitNoWriter
    /\ InitNoDatasets

\* calls of generate() in one process
SpecGenerate == InitGenerate /\ [][NextGenerate]_vars

\* datasets() is about to be called on a fresh evaluation directory; a
\* dataset has between none and NumSpeakers adaptation partitions
InitDatasets ==
    /\ cache = DefaultCache
    /\ InitRun
    /\ InitNoCall
    /\ InitNoModel
    /\ InitNoPreprocess
    /\ InitNoWriter
    /\ ds_pc = ""
    /\ ds_partitions \in [1..NumDatasets -> 0..NumSpeakers]
    /\ di = 1
    /\ pi = 1
    /\ disk = <<>>
    /\ timer = <<>>
    /\ evaluated = {}
    /\ elapsed = [d \in 1..NumDatasets |-> <<>>]
    /\ runs = 0
    /\ ds_metrics = <<>>

NextDatasets ==
    \/ CallDatasets
    \/ BeginDataset
    \/ EvaluateSpeaker
    \/ EvaluateSpeakerRaises
    \/ Aggregate
    \/ DatasetsReturns

\* calls of datasets() over one evaluation directory
SpecDatasets == InitDatasets /\ [][NextDatasets]_vars

\* the sample rates and the transcripts of the audio to preprocess
SampleRates == {SAMPLE_RATE, SAMPLE_RATE \div 2}
Transcripts == {"hello", "text", "loudness"}

\* a function of preprocess is about to be called: any subset of the
\* options is asked for
InitPreprocess ==
    /\ cache = DefaultCache
    /\ InitRun
    /\ InitNoCall
    /\ InitNoModel
    /\ InitNoDatasets
    /\ InitNoWriter
    /\ pp_op = ""
    /\ pp_pc = "call"
    /\ pp_features \in SUBSET FeatureOptions
    /\ pp_rate \in SampleRates
    /\ pp_transcript \in Transcripts
    /\ pp_file \in AudioFiles
    /\ pp_prefix \in {"None", "out/0001"}
    /\ pp_result = <<>>
    /\ pp_written = {}

NextPreprocess ==
    \/ PreprocessFromAudio
    \/ PreprocessFromFileToFile

\* one call of preprocess.from_audio or preprocess.from_file_to_file
SpecPreprocess == InitPreprocess /\ [][NextPreprocess]_vars

\* writer() has not been called in this process
InitWriter ==
    /\ cache = DefaultCache
    /\ InitRun
    /\ InitNoCall
    /\ InitNoModel
    /\ InitNoDatasets
    /\ InitNoPreprocess
    /\ InitNoWriter

NextWriter ==
    \/ WriterCreates
    \/ WriterReturns
    \/ WriterRaises

\* calls of writer() in one process
SpecWriter == InitWriter /\ [][NextWriter]_vars

\* what an earlier run over other stems has left in the evaluation
\* directories: the original audio of a stem that is no longer a test stem,
\* and alignments under prefixes of this run
StaleStem == 0
StaleWavs ==
    AudioFile("original_subjective", StaleStem, OriginalMod) :>
        [audio |-> AudioFile("cache", StaleStem, <<"", 100>>),
         target |-> <<>>]
StaleAlignments ==
    {<<test_stems[1], OriginalMod>>,
     <<test_stems[Len(test_stems)], Key("shifted", RATIOS[1])>>}

\* the state at the call of speaker() with the given audio files and
\* alignments in the evaluation directories and the given per-dataset
\* accumulators
InitSpeaker(present, alignments, accumulators) ==
    /\ pc = "copy"
    /\ raised = ""
    /\ wavs = present
    /\ original_objective = [a \in {} |-> <<>>]
    /\ objective = [a \in {} |-> <<>>]
    /\ fileKeys = <<>>
    /\ files = [k \in {} |-> <<>>]
    /\ stage = ""
    /\ ri = 1
    /\ items = <<>>
    /\ bi = 1
    /\ synthOrder = <<>>
    /\ ki = 1
    /\ alignment_json = alignments
    /\ extracted = [p \in {} |-> <<>>]
    /\ absentAfterPrimary = {}
    /\ p2fa_args = <<>>
    /\ p2fa_invoked = <<>>
    /\ fallbackOK = {}
    /\ converted = {}
    /\ ci = 1
    /\ alignOrder = <<>>
    /\ metrics = accumulators
    /\ speaker_metrics = default_metrics
    /\ file_metrics = <<>>
    /\ results = [k \in {} |-> <<>>]
    /\ fi = 1
    /\ metricOrder = <<>>
    /\ errors = 0
    /\ results_json = <<>>

\* speaker() is called again over evaluation directories an earlier run has
\* written to: the alignments it left are there, and its original audio may
\* be
InitRerun ==
    /\ cache = DefaultCache
    /\ \E present \in {[f \in {} |-> <<>>], StaleWavs} :
          InitSpeaker(present, StaleAlignments, default_metrics)
    /\ InitNoCall
    /\ InitNoModel
    /\ InitNoPreprocess
    /\ InitNoWriter
    /\ InitNoDatasets

NextRerun ==
    \/ NextDerive
    \/ ExtractProsody
    \/ CollectFailed
    \/ RetryP2FA
    \/ ConvertAlignment
    \/ ConvertAlignmentRaises
    \/ ConvertDone

\* a second run of speaker(), up to the objective evaluation
SpecRerun == InitRerun /\ [][NextRerun]_vars

(* ------------------ the stages of speaker() and datasets() ------------ *)

\* the accumulators of a dataset at the call of speaker() for a later
\* speaker: they hold the updates of the files of an earlier speaker, whose
\* stems are not of this partition
PriorMetrics ==
    [c \in MetricKeys |-> <<[args |-> <<StaleStem, c>>, whole |-> TRUE]>>]

\* the state at the call of speaker() for a later speaker of a dataset, in
\* fresh evaluation directories
InitLater ==
    /\ cache = DefaultCache
    /\ InitSpeaker([f \in {} |-> <<>>], {}, PriorMetrics)
    /\ InitNoCall
    /\ InitNoModel
    /\ InitNoPreprocess
    /\ InitNoWriter
    /\ InitNoDatasets

\* either the run of speaker() for one later speaker, stage by stage, or
\* calls of datasets() with each run of speaker() as one step
InitStages == InitLater \/ InitDatasets

NextStages ==
    \/ ds_partitions = <<>> /\ Next
    \/ ds_partitions # <<>> /\ NextDatasets

SpecStages == InitStages /\ [][NextStages]_vars

(* ----------------------------- properties ---------------------------- *)

IsPrefix(a, b) == Len(a) <= Len(b) /\ \A i \in DOMAIN a : a[i] = b[i]

\* the output prefixes of the batch whose prosody extraction began last
LastBatch ==
    IF alignOrder = <<>> THEN {}
    ELSE Range(OutputPrefixes(alignOrder[Len(alignOrder)]))

\* the outputs of one argument list handed to the fallback aligner
OutputsOf(call) == {call[i].output : i \in DOMAIN call}

\* C1: in every batch the fallback aligner is called with exactly the files
\* whose alignment is absent after the primary aligner ran: never with a file
\* whose alignment exists, once when some alignment is absent and not at all
\* when none is, and the alignments of the batch are then those of the
\* primary aligner together with those of the fallback aligner.
C1_FallbackExactlyOnFailures ==
    /\ Len(p2fa_invoked) <= 1
    /\ \A n \in DOMAIN p2fa_invoked :
          /\ OutputsOf(p2fa_invoked[n]) = absentAfterPrimary
          /\ Len(p2fa_invoked[n]) = Cardinality(absentAfterPrimary)
    /\ (pc \in {"extract", "convert", "objective"}) =>
          /\ (absentAfterPrimary # {}) <=> (Len(p2fa_invoked) = 1)
          /\ LastBatch \cap alignment_json =
                (LastBatch \ absentAfterPrimary) \cup fallbackOK

\* C1 witness: the fallback aligner has been called on a batch in which the
\* primary aligner aligned one file and failed on another
C1_Witness ==
    /\ pc = "convert"
    /\ absentAfterPrimary # {}
    /\ LastBatch \ absentAfterPrimary # {}
    /\ fallbackOK = absentAfterPrimary

\* the files of the running batch on which both aligners failed
DoublyFailed ==
    IF p2fa_invoked = <<>> THEN {} ELSE absentAfterPrimary \ fallbackOK

\* C2: a file on which both the primary and the fallback aligner fail does
\* not fail the batch: speaker() is never left by an exception because of it.
C2_DoubleFailureKeepsRunning ==
    (DoublyFailed # {}) => pc # "aborted"

\* C3: when the try-block of the metrics loop raises for a file, the run is
\* neither blocked nor aborted: it never waits at a debugger prompt and is
\* never left by an exception.
C3_MetricErrorNeverBlocks ==
    (errors > 0) => pc \notin {"pdb", "aborted"}

\* C4: the per-speaker and the per-dataset accumulator of every condition
\* have received the same updates, also after an update has raised.
C4_IdenticalUpdateStreams ==
    \A c \in MetricKeys : metrics[c] = speaker_metrics[c]

\* C5: when from_file_to_file raises for one item of a batch, every other
\* item of the batch is still synthesized and written.
C5_OtherFilesStillWritten ==
    (raised = "synthesis") =>
        \A j \in DOMAIN items \ {bi} : items[j].output \in DOMAIN wavs

\* C6: a generation call that raises is fatal for its condition only:
\* speaker() is not left by the exception.
C6_SynthesisFailureNotFatal ==
    (raised = "synthesis") => pc # "aborted"

\* original, reconstructed, shifted, stretched, scaled, ratios ascending
ConditionOrder ==
    <<<<"original", 100>>, <<"reconstructed", 100>>,
      <<"shifted", 50>>, <<"shifted", 71>>, <<"shifted", 141>>,
      <<"shifted", 200>>,
      <<"stretched", 50>>, <<"stretched", 71>>, <<"stretched", 141>>,
      <<"stretched", 200>>,
      <<"scaled", 50>>, <<"scaled", 71>>, <<"scaled", 141>>,
      <<"scaled", 200>>>>

\* C7: the conditions are generated, have their prosody extracted and have
\* their metrics computed in the one order original, reconstructed,
\* shifted, stretched, scaled, with the ratios ascending in each kind (the
\* original recordings are not generated).
C7_FixedConditionOrder ==
    /\ IsPrefix(synthOrder, Tail(ConditionOrder))
    /\ IsPrefix(alignOrder, ConditionOrder)
    /\ IsPrefix(metricOrder, ConditionOrder)

\* C7 witness: a run has ended with every condition gone through the three
\* stages
C7_Witness ==
    /\ pc = "done"
    /\ synthOrder = Tail(ConditionOrder)
    /\ alignOrder = ConditionOrder
    /\ metricOrder = ConditionOrder

\* the shifted pitch artifacts of original_objective_directory
ShiftedPitchFiles ==
    {a \in DOMAIN original_objective : a[2][1] = "shifted" /\ a[3] = "pitch"}

\* ratio * original pitch, before clipping, of frame i of a shifted artifact
Unclipped(a, ratio, i) ==
    (ratio * original_objective[<<a[1], OriginalMod, "pitch">>][i]) \div 1000

\* C8: every frame of every shifted pitch artifact equals
\* min(max(ratio * original pitch, FMIN), FMAX), and so lies in [FMIN, FMAX].
C8_ShiftedPitchClipped ==
    \A a \in ShiftedPitchFiles :
        \E j \in DOMAIN RATIOS :
            /\ Percent(RATIOS[j]) = a[2][2]
            /\ DOMAIN original_objective[a] =
                  DOMAIN original_objective[<<a[1], OriginalMod, "pitch">>]
            /\ \A i \in DOMAIN original_objective[a] :
                  /\ original_objective[a][i] =
                        Min(Max(Unclipped(a, RATIOS[j], i), FMIN), FMAX)
                  /\ original_objective[a][i] >= FMIN
                  /\ original_objective[a][i] <= FMAX

\* C8 witness: the shifted artifacts are written, and hold a frame clipped to
\* FMAX, a frame clipped to FMIN and a frame left as shifted
C8_Witness ==
    /\ pc = "stretched"
    /\ \E a \in ShiftedPitchFiles, j \in DOMAIN RATIOS :
          \E i \in DOMAIN original_objective[a] :
              /\ Percent(RATIOS[j]) = a[2][2]
              /\ Unclipped(a, RATIOS[j], i) > FMAX
              /\ original_objective[a][i] = FMAX
    /\ \E a \in ShiftedPitchFiles, j \in DOMAIN RATIOS :
          \E i \in DOMAIN original_objective[a] :
              /\ Percent(RATIOS[j]) = a[2][2]
              /\ Unclipped(a, RATIOS[j], i) < FMIN
              /\ original_objective[a][i] = FMIN
    /\ \E a \in ShiftedPitchFiles, j \in DOMAIN RATIOS :
          \E i \in DOMAIN original_objective[a] :
              /\ Percent(RATIOS[j]) = a[2][2]
              /\ Unclipped(a, RATIOS[j], i) > FMIN
              /\ Unclipped(a, RATIOS[j], i) < FMAX
              /\ original_objective[a][i] = Unclipped(a, RATIOS[j], i)

\* the grid [0, 1, ..., n - 1]
IdentityGrid(n) == [k \in 1..n |-> (k - 1) * GRID_ONE]

\* a linear sample n / d equals the value v
EqualsValue(sample, v) == sample.d # 0 /\ sample.n = v * sample.d

\* C9: grid_sample(sequence, [0, 1, ..., N - 1], 'linear') returns the
\* sequence unchanged, for every sequence of length N.
C9_IdentityGridIsExact ==
    (/\ gs_state = "returned"
     /\ gs_method = "linear"
     /\ gs_grid = IdentityGrid(Len(gs_sequence))) =>
        /\ Len(gs_result) = Len(gs_sequence)
        /\ \A k \in DOMAIN gs_result :
              EqualsValue(gs_result[k], gs_sequence[k])

\* C10: for a constant sequence of length N >= 1 and a grid with values in
\* [0, N - 1], every sample that grid_sample returns equals the constant
\* ('linear' and 'nearest'; 'slerp' is computed by ppgs).
C10_ConstantSequenceIsFixed ==
    (/\ gs_state = "returned"
     /\ \A k \in DOMAIN gs_sequence : gs_sequence[k] = gs_sequence[1]) =>
        \A k \in DOMAIN gs_result :
            IF gs_method = "linear"
            THEN EqualsValue(gs_result[k], gs_sequence[1])
            ELSE gs_result[k] = gs_sequence[1]

\* C11: pitch(sequence, grid) is 2 raised to the linear grid_sample of
\* log2(sequence): every entry is defined, its log2 is the linear sample of
\* the log2 contour, at an integer grid point it is the pitch of that frame,
\* half-way between 1 and 4 it is 2 (log2 = 1) and half-way between 1 and 2
\* it is 2 ** 0.5 (log2 = 1/2).
C11_PitchIsGeometric ==
    (gs_state = "returned" /\ gs_method = "pitch") =>
        LET logs == [i \in DOMAIN gs_sequence |-> Log2(gs_sequence[i])]
            linear == grid_sample(logs, gs_grid, "linear")
        IN \A k \in DOMAIN gs_grid :
              LET r == PitchLog2(gs_result[k])
                  x == gs_grid[k]
              IN /\ r.d # 0
                 /\ r = linear[k]
                 /\ (x % GRID_ONE = 0) =>
                        r.n = Log2(gs_sequence[x \div GRID_ONE + 1]) * r.d
                 /\ (/\ Len(gs_sequence) >= 2
                     /\ x = GRID_ONE \div 2
                     /\ gs_sequence[1] = 1) =>
                        \/ gs_sequence[2] = 1 /\ r.n = 0
                        \/ gs_sequence[2] = 4 /\ r.n = r.d
                        \/ gs_sequence[2] = 2 /\ 2 * r.n = r.d

\* the stems and keys of the stretched conditions derived so far
StretchedGrids ==
    {a \in DOMAIN original_objective : a[2][1] = "stretched" /\ a[3] = "grid"}

\* C12: for every stem and ratio, each stretched feature (loudness,
\* periodicity, phonemes, voicing, pitch) has as many frames as the grid of
\* that stem and ratio has entries, and the stretched text is the original
\* text.
C12_StretchedLengthIsGridLength ==
    \A g \in StretchedGrids :
        /\ \A ft \in {"loudness", "periodicity", "phonemes", "voicing",
                       "pitch"} :
              /\ <<g[1], g[2], ft>> \in DOMAIN original_objective
              /\ Len(original_objective[<<g[1], g[2], ft>>]) =
                    Len(original_objective[g])
        /\ <<g[1], g[2], "text">> \in DOMAIN original_objective
        /\ original_objective[<<g[1], g[2], "text">>] =
              cache[g[1]]["text"]

\* C12 witness: every ratio has been stretched, one grid is longer and one
\* is shorter than the original features
C12_Witness ==
    /\ pc = "scaled"
    /\ \E g \in StretchedGrids :
          Len(original_objective[g]) >
              Len(original_objective[<<g[1], OriginalMod, "loudness">>])
    /\ \E g \in StretchedGrids :
          Len(original_objective[g]) <
              Len(original_objective[<<g[1], OriginalMod, "loudness">>])

\* the artifacts of the conditions of one edit kind derived so far
Derived(kind) == {a \in DOMAIN original_objective : a[2][1] = kind}

\* C13: every shifted feature other than pitch and every scaled feature
\* other than loudness exists and is identical to the original-100 feature
\* of the same stem, and the original-100 artifacts stay as they were copied
\* from the cache.
C13_OnlyEditedFeatureChanges ==
    /\ \A a \in Derived("shifted") :
          \A ft \in Features \ {"pitch"} :
              /\ <<a[1], a[2], ft>> \in DOMAIN original_objective
              /\ original_objective[<<a[1], a[2], ft>>] = cache[a[1]][ft]
    /\ \A a \in Derived("scaled") :
          \A ft \in Features \ {"loudness"} :
              /\ <<a[1], a[2], ft>> \in DOMAIN original_objective
              /\ original_objective[<<a[1], a[2], ft>>] = cache[a[1]][ft]
    /\ \A a \in Derived("original") :
          original_objective[a] = cache[a[1]][a[3]]

\* C13 witness: all conditions are derived, a shifted pitch and a scaled
\* loudness differ from the original ones
C13_Witness ==
    /\ pc = "extract"
    /\ \E a \in Derived("shifted") :
          a[3] = "pitch" /\ original_objective[a] # cache[a[1]]["pitch"]
    /\ \E a \in Derived("scaled") :
          a[3] = "loudness" /\ original_objective[a] # cache[a[1]]["loudness"]

\* the scaled loudness artifacts derived so far
ScaledLoudnessFiles ==
    {a \in Derived("scaled") : a[3] = "loudness"}

\* loudness of frame i of a scaled artifact minus the original loudness
Offset(a, i) == original_objective[a][i] - cache[a[1]]["loudness"][i]

\* C14: every frame of a scaled loudness contour is the original frame plus
\* the one offset 10 * log2(ratio): +10 dB at ratio 2, -10 dB at ratio 0.5,
\* positive exactly when the ratio is above 1; and the offset of ratio 1
\* is 0.
C14_LoudnessOffset ==
    /\ TenLog2(1000) = 0
    /\ \A a \in ScaledLoudnessFiles :
          \E j \in DOMAIN RATIOS :
              /\ Percent(RATIOS[j]) = a[2][2]
              /\ DOMAIN original_objective[a] =
                    DOMAIN cache[a[1]]["loudness"]
              /\ \A i \in DOMAIN original_objective[a] :
                    /\ Offset(a, i) = Offset(a, 1)
                    /\ Offset(a, i) = TenLog2(RATIOS[j])
                    /\ (RATIOS[j] = 2000) => Offset(a, i) = 10000
                    /\ (RATIOS[j] = 500) => Offset(a, i) = -10000
                    /\ (Offset(a, i) > 0) <=> (RATIOS[j] > 1000)

\* C14 witness: loudness has been scaled up by 10 dB and down by 10 dB
C14_Witness ==
    /\ pc = "extract"
    /\ \E a \in ScaledLoudnessFiles : Offset(a, 1) = 10000
    /\ \E a \in ScaledLoudnessFiles : Offset(a, 1) = -10000
    /\ \E a \in ScaledLoudnessFiles : Offset(a, 1) \notin {10000, -10000}

\* the calls of generate() so far all passed the same checkpoint argument
\* and the same device
SameArguments == \A k \in DOMAIN gen_args : gen_args[k] = gen_args[1]

\* C15: in a batch of calls of generate() with one checkpoint argument and
\* one device, the first call loads the checkpoint and no later call does,
\* whichever form the checkpoint argument has.
C15_CheckpointLoadedOnce ==
    SameArguments =>
        \A k \in DOMAIN gen_loaded : gen_loaded[k] <=> (k = 1)

\* the datasets whose results.json the running call of datasets() has
\* written
Aggregated == IF runs = 0 THEN {} ELSE 1..(di - 1)

\* the datasets whose aggregation the running call has executed
Passed ==
    IF ds_pc = "aborted" /\ pi > ds_partitions[di] THEN 1..di
    ELSE Aggregated

\* the speakers of a dataset evaluated by the running call
EvaluatedOf(dataset) == {f \in evaluated : f[1] = dataset}

\* C16: the num_samples and num_frames of the results.json of a dataset are
\* the sums over the results.json files of the speakers evaluated in the
\* running call of datasets(), each counted once, also in a second call
\* over the same evaluation directory.
C16_DatasetCountsAreSpeakerSums ==
    \A d \in Aggregated :
        LET mine == EvaluatedOf(d)
        IN /\ disk[DatasetResults(d)].num_samples =
                 Sum([f \in mine |-> disk[f].num_samples], mine)
           /\ disk[DatasetResults(d)].num_frames =
                 Sum([f \in mine |-> disk[f].num_frames], mine)

\* C17: the results of every dataset are written whatever its
\* num_samples; their benchmark.raw is the time accumulated during the
\* evaluation of that dataset only, and benchmark.average[k] is raw[k]
\* divided by num_samples.
C17_BenchmarkPerDataset ==
    \A d \in Passed :
        /\ DatasetResults(d) \in DOMAIN disk
        /\ LET r == disk[DatasetResults(d)]
           IN /\ r.raw = elapsed[d]
              /\ \A k \in DOMAIN r.raw :
                     r.average[k] = [n |-> r.raw[k], d |-> r.num_samples]

\* the part of C17 that holds: what is written has the time of its own
\* dataset only
C17_WrittenBenchmarkIsOwn ==
    \A d \in Aggregated :
        LET r == disk[DatasetResults(d)]
        IN /\ r.raw = elapsed[d]
           /\ \A k \in DOMAIN r.raw :
                  r.average[k] = [n |-> r.raw[k], d |-> r.num_samples]

\* num_samples of a run of speaker() in which every file succeeded: every
\* condition but 'original' has one generated file for each stem
FullSamples ==
    LET generated == {AudioFile("subjective", st, k) :
                         st \in Range(test_stems),
                         k \in MetricKeys}
    IN Sum([f \in generated |-> StSize(f)], generated) \div 4

\* C18: speaker() always ends by writing results.json, and a file whose
\* processing failed shows up in it as a num_samples and a num_frames lower
\* than those of a run in which every file succeeded.
C18_ResultsAlwaysWritten ==
    /\ pc \in {"done", "aborted"} => results_json # <<>>
    /\ (pc = "done" /\ errors > 0) =>
           /\ results_json.num_samples < FullSamples
           /\ results_json.num_frames < FullSamples \div HOPSIZE

\* the part of C18 that holds in a run that reaches its end: results.json
\* has every entry that was computed, and no field but raw, average and the
\* two counts
C18_WrittenResultsAreWhole ==
    pc = "done" =>
        /\ DOMAIN results_json =
               {"raw", "average", "num_samples", "num_frames"}
        /\ results_json.raw = results
        /\ results_json.average = speaker_metrics
        /\ results_json.num_samples = FullSamples

\* the prefixes two keys of `files` share
SharedPrefixes(k1, k2) ==
    Range(OutputPrefixes(k1)) \cap Range(OutputPrefixes(k2))

\* the features found under the prefix of every file of a batch that went
\* through the extraction are those of the audio of that file
ExtractedFromOwnAudio ==
    \A k \in Range(alignOrder) :
        \A i \in DOMAIN files[k] :
            LET p == Prefix(files[k][i])
            IN p \in DOMAIN extracted => extracted[p] = files[k][i]

\* a run without a failure has updated the accumulator of every condition
\* once for each stem
OneUpdatePerStem ==
    (pc = "done" /\ errors = 0) =>
        \A c \in MetricKeys : Len(speaker_metrics[c]) = Len(test_stems)

\* C19: no two conditions share an extracted-feature prefix, the features
\* extracted from the audio of one condition are never overwritten by
\* another condition, and the accumulator of every condition is updated
\* exactly once for each stem.
C19_DistinctConditionsDistinctArtifacts ==
    /\ \A k1, k2 \in Range(fileKeys) :
           k1 # k2 => SharedPrefixes(k1, k2) = {}
    /\ ExtractedFromOwnAudio
    /\ OneUpdatePerStem

\* the part of C19 that holds: the edited conditions share no prefix, with
\* one another or with the original
C19_EditedConditionsAreDistinct ==
    \A k1, k2 \in Range(fileKeys) \ {KeyReconstructed} :
        k1 # k2 => SharedPrefixes(k1, k2) = {}

\* what a fresh accumulator holds after at most the update of one file
FreshFileMetrics(file) ==
    {<<>>, <<Update(file, TRUE)>>, <<Update(file, FALSE)>>}

\* C20: in results.json, objective.raw has for every key of `files` one
\* entry for each file of the key, in the order the files were processed;
\* an entry is the stem of its file and the metrics of an accumulator that
\* received no update but that of the file.
C20_RawResultsPerFileInOrder ==
    results_json # <<>> =>
        /\ DOMAIN results_json.raw = Range(fileKeys)
        /\ \A k \in Range(fileKeys) :
               /\ Len(results_json.raw[k]) = Len(files[k])
               /\ \A i \in DOMAIN files[k] :
                      /\ results_json.raw[k][i][1] = Prefix(files[k][i])
                      /\ results_json.raw[k][i][2] \in
                             FreshFileMetrics(files[k][i])

\* C20 witness: results.json is written for every condition of a partition
\* of several stems, after the metrics of one file raised before the
\* accumulator of the file was updated
C20_Witness ==
    /\ results_json # <<>>
    /\ Range(fileKeys) = Range(ConditionOrder)
    /\ Len(test_stems) > 1
    /\ \E k \in DOMAIN results_json.raw :
           /\ Len(results_json.raw[k]) > 1
           /\ \E i \in DOMAIN results_json.raw[k] :
                  results_json.raw[k][i][2] = <<>>
           /\ \E i \in DOMAIN results_json.raw[k] :
                  results_json.raw[k][i][2] # <<>>

\* the features asked for, in the order of the docstring of from_audio
Documented(features) ==
    SelectSeq(<<"loudness", "periodicity", "pitch", "ppg", "text">>,
              LAMBDA f : f \in features)

\* the feature each entry of a returned tuple holds
Held(tuple) ==
    [i \in DOMAIN tuple |->
        IF tuple[i].type = "str" THEN "text" ELSE tuple[i].value]

\* C21: from_audio returns the features asked for and nothing else, in the
\* order loudness, periodicity, pitch, ppg, text, for every subset asked
\* for.
C21_ExactlyRequestedInOrder ==
    pp_op = "from_audio" =>
        /\ pp_pc = "returned"
        /\ Held(pp_result) = Documented(pp_features)

\* the part of C21 that holds: a request without pitch and periodicity that
\* returns has exactly its features, in the documented order
C21_WithoutPitchAndPeriodicity ==
    (/\ pp_op = "from_audio"
     /\ pp_pc = "returned"
     /\ pp_features \cap {"pitch", "periodicity"} = {}) =>
        Held(pp_result) = Documented(pp_features)

\* the prefix from_file_to_file is to write under
ExpectedPrefix ==
    IF pp_prefix = "None" THEN MinusExtension(pp_file) ELSE pp_prefix

\* C22: from_file_to_file writes one artifact holding its value for every
\* feature asked for and nothing else, under the output prefix, which is
\* the path of the input file minus its extension when none is given.
C22_OneArtifactPerFeature ==
    pp_op = "from_file_to_file" =>
        /\ pp_pc = "returned"
        /\ {w.name : w \in pp_written} =
               {Artifact(ExpectedPrefix, f) : f \in pp_features}
        /\ \A w \in pp_written :
               \E i \in DOMAIN pp_result :
                  /\ w.content = pp_result[i]
                  /\ w.name = Artifact(ExpectedPrefix, Held(pp_result)[i])

\* the last call of generate()
LastCall == gen_args[Len(gen_args)]

\* C28: after any sequence of calls of generate(), the model the last call
\* used was loaded from the checkpoint of that call, on the device of that
\* call.
C28_ModelIsOfItsCall ==
    gen_args # <<>> =>
        /\ gen_model = Resolve(LastCall[1])
        /\ gen_device = LastCall[2]

\* C28 witness: a call reused the cached model after calls with another
\* checkpoint and with another device
C28_Witness ==
    /\ gen_args # <<>>
    /\ ~gen_loaded[Len(gen_loaded)]
    /\ \E k \in DOMAIN gen_args : gen_args[k][2] # LastCall[2]
    /\ \E k \in DOMAIN gen_args :
           Resolve(gen_args[k][1]) # Resolve(LastCall[1])

\* C30: the first call of writer() creates the one writer of the process,
\* bound to its directory; a later call with that directory returns that
\* writer and creates none; a call with another directory raises ValueError
\* and leaves the cached writer and its directory as they were.
C30_WriterIsSingleton ==
    wr_calls # <<>> =>
        /\ wr_created = <<wr_calls[1].directory>>
        /\ wr_directory = wr_calls[1].directory
        /\ wr_writer = 1
        /\ \A k \in DOMAIN wr_calls :
               IF wr_calls[k].directory = wr_calls[1].directory
               THEN wr_calls[k].outcome = "returned" /\ wr_calls[k].writer = 1
               ELSE wr_calls[k].outcome = "ValueError"

\* C30 witness: after the first call, a call with another directory has
\* raised and a later call with the first directory has returned
C30_Witness ==
    /\ Len(wr_calls) = 3
    /\ wr_calls[2].outcome = "ValueError"
    /\ wr_calls[3].outcome = "returned"

\* the condition whose synthesis call is running
Synthesized == synthOrder[Len(synthOrder)]

\* the features of the persisted feature set of a condition
FeatureSet(key) ==
    Features \cup (IF key[1] = "stretched" THEN {"grid"} ELSE {})

\* C24: when the synthesis of an edited condition and ratio is invoked,
\* every test stem has its pitch, periodicity, loudness, voicing, phonemes
\* and text persisted for that condition and ratio, and its grid when the
\* condition is stretched.
C24_FeatureSetCompleteAtSynthesis ==
    (pc = "synthesize" /\ stage \in {"shifted", "stretched", "scaled"}) =>
        \A st \in Range(test_stems) :
            \A ft \in FeatureSet(Synthesized) :
                <<st, Synthesized, ft>> \in DOMAIN original_objective

\* C24 witness: the synthesis of the last stretched condition is invoked
\* for several stems
C24_Witness ==
    /\ pc = "synthesize"
    /\ stage = "stretched"
    /\ Synthesized = Key("stretched", RATIOS[Len(RATIOS)])
    /\ bi = 1
    /\ Len(items) = Len(test_stems)
    /\ Len(test_stems) > 1

\* C27: the alignments of the prefixes of a batch are deleted before the
\* primary aligner runs: after it ran, an alignment of the batch exists only
\* where the primary aligner has written it in this run, and every file it
\* failed on is retried, whatever an earlier run has left.
C27_NoStaleAlignmentAfterPrimary ==
    /\ pc \in {"collect", "p2fa"} =>
           LastBatch \cap alignment_json = LastBatch \ absentAfterPrimary
    /\ pc = "p2fa" => OutputsOf(p2fa_args) = absentAfterPrimary

\* C27 witness: a file whose alignment an earlier run had left, and on
\* which the primary aligner failed in this run, is about to be retried
C27_Witness ==
    /\ pc = "p2fa"
    /\ OutputsOf(p2fa_args) \cap StaleAlignments # {}
    /\ LastBatch \ absentAfterPrimary # {}

\* the stems of a list of audio files
StemsOf(list) == [i \in DOMAIN list |-> list[i].stem]

\* C29: in every synthesis call of speaker() the i-th source file, the i-th
\* output file and the i-th target file are of the same stem, whatever the
\* evaluation directories held at the start of the run, and every test stem
\* has exactly one output file for every condition.
C29_SynthesisArgumentsAligned ==
    pc = "synthesize" =>
        /\ \A i \in DOMAIN items :
               /\ items[i].source.stem = items[i].output.stem
               /\ items[i].target # <<>> =>
                      items[i].target[1] = items[i].output.stem
        /\ StemsOf(files[Synthesized]) = test_stems
        /\ Len(items) = Len(test_stems)

\* the part of C29 that holds: the output files and the target files are of
\* the same stems, one for every test stem
C29_OutputsMatchTargets ==
    pc = "synthesize" =>
        /\ \A i \in DOMAIN items :
               items[i].target # <<>> =>
                   items[i].target[1] = items[i].output.stem
        /\ StemsOf(files[Synthesized]) = test_stems

\* C26: the phoneme indices of a file are written for every alignment the
\* fallback aligner produced, once the conversion loop of the batch is
\* left, and for no file the primary aligner aligned.
C26_PhonemesForFallbackAlignments ==
    /\ converted \cap (LastBatch \ absentAfterPrimary) = {}
    /\ pc \in {"extract", "objective", "aborted"} => fallbackOK \subseteq converted

\* the part of C26 that holds: no indices are written but for alignments of
\* the fallback aligner, and all of them are when the loop ends without an
\* exception
C26_OnlyFallbackAlignments ==
    /\ converted \subseteq fallbackOK
    /\ pc \in {"extract", "objective"} => fallbackOK \subseteq converted


\* the updates of an accumulator without the speaker they are of
Arguments(updates) ==
    [n \in DOMAIN updates |->
        [args |-> updates[n].args, whole |-> updates[n].whole]]

RECURSIVE UpdatesUpTo(_, _, _)
\* the updates of the first n speakers of a dataset for a condition
UpdatesUpTo(dataset, n, condition) ==
    IF n = 0 THEN <<>>
    ELSE UpdatesUpTo(dataset, n - 1, condition)
         \o SpeakerUpdates(dataset, n, condition)

\* what the run of a later speaker has added to a dataset-level accumulator
AddedBySpeaker(c) == SubSeq(metrics[c], Len(PriorMetrics[c]) + 1, Len(metrics[c]))

\* during the run of a speaker the dataset-level accumulators keep what the
\* earlier speakers put in, the per-speaker accumulators never hold any of
\* it, every update of a per-speaker accumulator is in the dataset-level
\* one of the same condition, and a run that ends without an error has added
\* the same updates to both
SpeakerKeepsDatasetMetrics ==
    ds_partitions = <<>> =>
        \A c \in MetricKeys :
            /\ IsPrefix(PriorMetrics[c], metrics[c])
            /\ \A u \in Range(speaker_metrics[c]) : u.args[1] # StaleStem
            /\ \A u \in Range(speaker_metrics[c]) :
                   [u EXCEPT !.whole = TRUE] \in Range(AddedBySpeaker(c))
            /\ (pc = "done" /\ errors = 0) =>
                   /\ AddedBySpeaker(c) = speaker_metrics[c]
                   /\ AddedBySpeaker(c) = Arguments(SpeakerUpdates(1, 1, c))

\* in datasets() the accumulators of the running dataset hold the updates
\* of its speakers evaluated so far, and the prosody written for a dataset
\* is of all its speakers and of no other dataset
DatasetMetricsAreOwn ==
    ds_partitions # <<>> =>
        /\ ds_pc = "partition" =>
               \A c \in MetricKeys :
                   ds_metrics[c] = UpdatesUpTo(di, pi - 1, c)
        /\ \A d \in Aggregated : \A c \in MetricKeys :
               disk[DatasetResults(d)].prosody[c] =
                   UpdatesUpTo(d, ds_partitions[d], c)

\* C25: the dataset-level accumulators are made once per dataset and the
\* per-speaker accumulators once per speaker, as separate instances:
\* beginning or ending a speaker changes no dataset-level accumulator, and
\* after all speakers the dataset-level accumulator of a condition holds
\* the updates of every speaker of the dataset for that condition and none
\* of another dataset.
C25_AccumulatorsAreSeparate ==
    /\ SpeakerKeepsDatasetMetrics
    /\ DatasetMetricsAreOwn

\* the second dataset is aggregated with speakers of its own after a first
\* dataset with speakers
C25_Witness ==
    /\ ds_partitions # <<>>
    /\ 2 \in Aggregated
    /\ ds_partitions[1] > 0
    /\ ds_partitions[2] > 1
    /\ disk[DatasetResults(2)].prosody[OriginalMod] # <<>>


\* the conditions whose features speaker() derives
Edited(key) == key[1] \in {"shifted", "stretched", "scaled"}

\* the stages of one run of speaker(): the originals are there when the
\* reconstruction is invoked, the features of an edited condition when its
\* synthesis is, the audio of a batch when its alignments are recovered,
\* every alignment recovery is over when the first metrics are updated, and
\* every file has its result when results.json is written
SpeakerStagesInOrder ==
    ds_partitions = <<>> =>
        /\ synthOrder # <<>> =>
               \A st \in Range(test_stems) :
                   /\ AudioFile("original_subjective", st, OriginalMod)
                          \in DOMAIN wavs
                   /\ \A ft \in DOMAIN cache[st] :
                          <<st, OriginalMod, ft>> \in DOMAIN original_objective
        /\ \A key \in Range(synthOrder) :
               Edited(key) =>
                   \A st \in Range(test_stems), ft \in FeatureSet(key) :
                       <<st, key, ft>> \in DOMAIN original_objective
        /\ \A key \in Range(alignOrder) :
               /\ key = KeyOriginal \/ key \in Range(synthOrder)
               /\ Range(files[key]) \subseteq DOMAIN wavs
        /\ metricOrder # <<>> => alignOrder = FilesItems
        /\ \A c \in MetricKeys : \A u \in Range(AddedBySpeaker(c)) :
               u.args \in DOMAIN extracted
        /\ results_json # <<>> =>
               /\ metricOrder = FilesItems
               /\ \A key \in Range(FilesItems) :
                      Len(results[key]) = Len(files[key])

\* the aggregation of a dataset is executed after speaker() has returned
\* for every adaptation partition of the dataset in the running call
AggregationAfterSpeakers ==
    ds_partitions # <<>> =>
        \A d \in Passed : \A i \in 1..ds_partitions[d] :
            /\ <<d, i>> \in evaluated
            /\ <<d, i>> \in DOMAIN disk

\* C23: the stages happen in dependency order: the originals are copied
\* before the reconstruction, the features of an edited condition are
\* derived before its synthesis call, audio is synthesized before its
\* alignment recovery, alignment recovery comes before the metrics update,
\* results.json of the speaker is written after all its metrics updates,
\* and a dataset is aggregated after every speaker of it has been
\* serialized.
C23_StagesInDependencyOrder ==
    /\ SpeakerStagesInOrder
    /\ AggregationAfterSpeakers

\* C23 witness: a run of speaker() has been through every stage, with
\* every condition synthesized, aligned and measured
C23_Witness ==
    /\ ds_partitions = <<>>
    /\ pc = "done"
    /\ results_json # <<>>
    /\ Len(synthOrder) = 1 + 3 * Len(RATIOS)
    /\ Len(metricOrder) = 2 + 3 * Len(RATIOS)
    /\ Len(test_stems) > 1

====
